---- MODULE Spec2Model ----
(***************************************************************************)
(* ConcursosAtivos: table classification, consolidation, schema inference  *)
(* and record extraction of src/src/pdf_parser.py, and the batch loop of   *)
(* src/main.py.                                                            *)
(*                                                                         *)
(* A Python str is a sequence of one-character strings.  A table cell is a *)
(* record [k, s]: k = "str" (s holds the characters), k = "None" (Python   *)
(* None), k = "nan" (float NaN, produced by pandas alignment) or k = "int" *)
(* (s holds the decimal digits).  A DataFrame is [columns, rows]: the      *)
(* column labels and the rows, each row as wide as the columns.            *)
(***************************************************************************)
EXTENDS Integers, Sequences, FiniteSets, TLC

VARIABLES
    pc,               \* position of the running code
    df,               \* parse_cargos: the DataFrame argument
    cidade,           \* parse_cargos: the cidade argument
    col_mapping,      \* parse_cargos: field name -> 0-based column index
    row_idx,          \* parse_cargos: 1-based position of the iterrows loop
    cargos,           \* parse_cargos: the list of records built so far
    tables,           \* find_cargos_table: the list of DataFrames it is given
    t_idx,            \* find_cargos_table: 1-based position of the loop over tables
    score,            \* find_cargos_table: score of the table examined last
    cargo_tables,     \* find_cargos_table: the tables kept so far
    reference_shape,  \* find_cargos_table: column count of reference, -1 for None
    consolidated,     \* find_cargos_table: its return value
    edital,           \* process_edital: the document behind the url
    result,           \* process_edital: its return value
    concursos_data,   \* main: the list returned by scrape_all
    c_idx,            \* main: 1-based position of the loop over concursos_data
    concurso,         \* main: the Concurso object of the current iteration
    main_cargos,      \* main: the local variable cargos
    database,         \* main: ConcursosDatabase.concursos
    previous,         \* a caller of parse_cargos: what its previous call returned
    concursos,        \* scrape_all: the list returned by get_concursos_abertos
    site,             \* the web site: what the listing page and the competition pages answer
    elapsed,          \* time since the last HTTP request was issued, capped at REQUEST_DELAY
    n_requests,       \* number of HTTP requests issued so far
    vagas_text,       \* parse_vagas: its argument
    vagas_result      \* parse_vagas: its return value (vagas_imediatas, cadastro_reserva)

parseVars == <<df, cidade, col_mapping, row_idx, cargos>>
findVars == <<tables, t_idx, score, cargo_tables, reference_shape, consolidated>>
editalVars == <<edital, result>>
mainVars == <<concursos_data, c_idx, concurso, main_cargos, database>>
callerVars == <<previous>>
scrapeVars == <<concursos, site>>
netVars == <<elapsed, n_requests>>
utilVars == <<vagas_text, vagas_result>>
vars == <<pc, parseVars, findVars, editalVars, mainVars, callerVars, scrapeVars, netVars, utilVars>>

(***************************************************************************)
(* Bounds of the checked inputs.                                           *)
(***************************************************************************)
MaxCols == 9
MaxRows == 2

(***************************************************************************)
(* config.py: REQUEST_DELAY, in seconds.                                   *)
(***************************************************************************)
REQUEST_DELAY == 1

(***************************************************************************)
(* Python str primitives.                                                  *)
(***************************************************************************)
Whitespace == {" ", "\n", "\t"}

UpperChars == <<"A","B","C","D","E","F","G","H","I","J","K","L","M","N","O","P","Q","R","S","T","U","V","W","X","Y","Z","Á","Ã","Ç","Õ">>
LowerChars == <<"a","b","c","d","e","f","g","h","i","j","k","l","m","n","o","p","q","r","s","t","u","v","w","x","y","z","á","ã","ç","õ">>

LowerMap == [n \in 1..Len(UpperChars) |-> LowerChars[n]]
UpperIndex == [c \in {UpperChars[n] : n \in 1..Len(UpperChars)} |->
                 CHOOSE n \in 1..Len(UpperChars) : UpperChars[n] = c]

LowerChar(c) == IF c \in DOMAIN UpperIndex THEN LowerMap[UpperIndex[c]] ELSE c

\* str.lower()
Lower(s) == [i \in 1..Len(s) |-> LowerChar(s[i])]

RECURSIVE LStrip(_)
LStrip(s) == IF s # <<>> /\ Head(s) \in Whitespace THEN LStrip(Tail(s)) ELSE s

RECURSIVE RStrip(_)
RStrip(s) ==
    IF s # <<>> /\ s[Len(s)] \in Whitespace THEN RStrip(SubSeq(s, 1, Len(s) - 1)) ELSE s

\* str.strip()
Strip(s) == RStrip(LStrip(s))

\* kw in s
Contains(s, kw) ==
    \E i \in 1..(Len(s) - Len(kw) + 1) : SubSeq(s, i, i + Len(kw) - 1) = kw

RECURSIVE Join(_)
\* ' '.join(parts)
Join(parts) ==
    IF parts = <<>> THEN <<>>
    ELSE IF Len(parts) = 1 THEN parts[1]
    ELSE parts[1] \o <<" ">> \o Join(Tail(parts))

Digits == <<"0","1","2","3","4","5","6","7","8","9">>

RECURSIVE IntStr(_)
\* str(n) for n >= 0
IntStr(n) == IF n < 10 THEN <<Digits[n + 1]>> ELSE IntStr(n \div 10) \o <<Digits[(n % 10) + 1]>>

StrCell(s) == [k |-> "str", s |-> s]
NoneCell == [k |-> "None", s |-> <<>>]
NaNCell == [k |-> "nan", s |-> <<>>]
IntCell(n) == [k |-> "int", s |-> IntStr(n)]

\* str(value) of a cell
Str(cell) ==
    CASE cell.k = "str" -> cell.s
      [] cell.k = "None" -> <<"N","o","n","e">>
      [] cell.k = "nan" -> <<"n","a","n">>
      [] cell.k = "int" -> cell.s

(***************************************************************************)
(* String literals of the source.                                          *)
(***************************************************************************)
s_cargo == <<"c","a","r","g","o">>
s_escolaridade == <<"e","s","c","o","l","a","r","i","d","a","d","e">>
s_requisito == <<"r","e","q","u","i","s","i","t","o">>
s_salario == <<"s","a","l","á","r","i","o">>
s_remuneracao == <<"r","e","m","u","n","e","r","a","ç","ã","o">>
s_vencimento == <<"v","e","n","c","i","m","e","n","t","o">>
s_vagas == <<"v","a","g","a","s">>
s_chs == <<"c","h","s">>
s_carga_horaria == <<"c","a","r","g","a"," ","h","o","r","á","r","i","a">>
s_funcao == <<"f","u","n","ç","ã","o">>
s_valor_inicial == <<"v","a","l","o","r"," ","i","n","i","c","i","a","l">>
s_carga == <<"c","a","r","g","a">>
s_nan == <<"n","a","n">>
s_None == <<"N","o","n","e">>
s_null == <<"n","u","l","l">>
s_dash == <<"-">>
s_pagina == <<"_","p","a","g","i","n","a">>

(***************************************************************************)
(* DataFrame primitives.                                                   *)
(***************************************************************************)
\* df.empty
Empty(d) == Len(d.columns) = 0 \/ Len(d.rows) = 0

\* df.shape[1], len(df.columns)
NumCols(d) == Len(d.columns)

(***************************************************************************)
(* parse_cargos: schema inference (col_mapping).                           *)
(***************************************************************************)
\* dict assignment m[key] = value
DictSet(m, key, value) ==
    [x \in (DOMAIN m) \cup {key} |-> IF x = key THEN value ELSE m[x]]

EmptyDict == [x \in {} |-> 0]

\* WideMapping with the salary one column further to the right
WideMapping_m == [cargo |-> 0, requisito |-> 2, carga_horaria |-> 3, vagas |-> 4, salario |-> 8]

WideMapping == [cargo |-> 0, requisito |-> 2, carga_horaria |-> 3, vagas |-> 4, salario |-> 7]

MediumMapping == [cargo |-> 0, requisito |-> 1, carga_horaria |-> 2, vagas |-> 3, salario |-> 4]

\* the if/elif chain of one column of the narrow tier: the field the column is
\* assigned to, or "" when no branch matches
NarrowField(col) ==
    LET col_lower == Lower(Str(col)) IN
    IF Contains(col_lower, s_cargo) \/ Contains(col_lower, s_funcao) THEN "cargo"
    ELSE IF Contains(col_lower, s_escolaridade) \/ Contains(col_lower, s_requisito)
         THEN "requisito"
    ELSE IF \/ Contains(col_lower, s_salario)
            \/ Contains(col_lower, s_vencimento)
            \/ Contains(col_lower, s_remuneracao)
            \/ Contains(col_lower, s_valor_inicial)
         THEN "salario"
    ELSE IF Contains(col_lower, s_chs) \/ Contains(col_lower, s_carga) THEN "carga_horaria"
    ELSE IF Contains(col_lower, s_vagas) THEN "vagas"
    ELSE ""

RECURSIVE NarrowMapping_m(_, _, _)
\* NarrowMapping where the first column assigned to a field keeps it
NarrowMapping_m(columns, idx, m) ==
    IF idx >= Len(columns) THEN m
    ELSE LET f == NarrowField(columns[idx + 1]) IN
         NarrowMapping_m(columns, idx + 1,
                         IF f = "" \/ f \in DOMAIN m THEN m ELSE DictSet(m, f, idx))

RECURSIVE NarrowMapping(_, _, _)
\* for idx, col in enumerate(df.columns), from 0-based position idx on
NarrowMapping(columns, idx, m) ==
    IF idx >= Len(columns) THEN m
    ELSE LET f == NarrowField(columns[idx + 1]) IN
         NarrowMapping(columns, idx + 1, IF f = "" THEN m ELSE DictSet(m, f, idx))

\* InferMapping with num_cols > 8 in place of num_cols >= 8
InferMapping_m(d) ==
    LET num_cols == NumCols(d) IN
    IF num_cols > 8 THEN WideMapping
    ELSE IF num_cols >= 5 THEN MediumMapping
    ELSE NarrowMapping(d.columns, 0, EmptyDict)

InferMapping(d) ==
    LET num_cols == NumCols(d) IN
    IF num_cols >= 8 THEN WideMapping
    ELSE IF num_cols >= 5 THEN MediumMapping
    ELSE NarrowMapping(d.columns, 0, EmptyDict)

(***************************************************************************)
(* parse_cargos: one row.                                                  *)
(***************************************************************************)
Fields == {"cargo", "requisito", "salario", "carga_horaria", "vagas"}

\* row.iloc[i] raises IndexError for some mapped field
RowRaises(row, m) == \E f \in DOMAIN m : m[f] >= Len(row)

\* str(row.iloc[col_mapping[f]]).strip(), or '' when f is not mapped
FieldText(row, m, f) ==
    IF f \in DOMAIN m THEN Strip(Str(row[m[f] + 1])) ELSE <<>>

Placeholders == {s_nan, s_None, s_null}

\* CleanValue with 'null' missing from the list of placeholders
CleanValue_m(v) == IF v \in {s_nan, s_None} THEN <<>> ELSE v

\* if cargo_info[key] in ['nan', 'None', 'null']: cargo_info[key] = ''
CleanValue(v) == IF v \in Placeholders THEN <<>> ELSE v

\* cargo_info after the try block and the cleaning loop over all its keys
CargoInfo(row, m, cid) ==
    [cidade |-> CleanValue(cid),
     cargo |-> CleanValue(FieldText(row, m, "cargo")),
     requisito |-> CleanValue(FieldText(row, m, "requisito")),
     salario |-> CleanValue(FieldText(row, m, "salario")),
     carga_horaria |-> CleanValue(FieldText(row, m, "carga_horaria")),
     vagas |-> CleanValue(FieldText(row, m, "vagas"))]

\* Included with len(cargo) >= 3 in place of len(cargo) > 3
Included_m(ci) ==
    /\ ci.cargo # <<>>
    /\ Len(ci.cargo) >= 3
    /\ ci.salario # <<>>
    /\ ci.salario \notin {s_nan, s_None, s_dash}

\* the condition under which cargo_info is appended
Included(ci) ==
    /\ ci.cargo # <<>>
    /\ Len(ci.cargo) > 3
    /\ ci.salario # <<>>
    /\ ci.salario \notin {s_nan, s_None, s_dash}

(***************************************************************************)
(* parse_cargos as steps: entry, one iteration of the row loop, return.    *)
(***************************************************************************)
ParseInit ==
    /\ pc = "parse_init"
    /\ cargos' = <<>>
    /\ IF Empty(df)
       THEN /\ pc' = "parse_done"
            /\ UNCHANGED <<col_mapping, row_idx>>
       ELSE /\ col_mapping' = InferMapping(df)
            /\ row_idx' = 1
            /\ pc' = "parse_rows"
    /\ UNCHANGED <<utilVars, callerVars, scrapeVars, netVars, df, cidade, findVars, editalVars, mainVars>>

\* ParseRow that writes the cleaned role back into the cell it was read from
ParseRow_m ==
    /\ pc = "parse_rows"
    /\ row_idx <= Len(df.rows)
    /\ LET row == df.rows[row_idx] IN
       IF RowRaises(row, col_mapping)
       THEN cargos' = cargos /\ df' = df
       ELSE LET cargo_info == CargoInfo(row, col_mapping, cidade) IN
            /\ cargos' = IF Included(cargo_info) THEN Append(cargos, cargo_info) ELSE cargos
            /\ df' = IF "cargo" \in DOMAIN col_mapping
                     THEN [df EXCEPT !.rows[row_idx][col_mapping["cargo"] + 1] =
                                         StrCell(cargo_info.cargo)]
                     ELSE df
    /\ row_idx' = row_idx + 1
    /\ UNCHANGED <<utilVars, callerVars, scrapeVars, netVars, pc, cidade, col_mapping, findVars, editalVars, mainVars>>

ParseRow ==
    /\ pc = "parse_rows"
    /\ row_idx <= Len(df.rows)
    /\ LET row == df.rows[row_idx] IN
       IF RowRaises(row, col_mapping)
       THEN cargos' = cargos
       ELSE LET cargo_info == CargoInfo(row, col_mapping, cidade) IN
            cargos' = IF Included(cargo_info) THEN Append(cargos, cargo_info) ELSE cargos
    /\ row_idx' = row_idx + 1
    /\ UNCHANGED <<utilVars, callerVars, scrapeVars, netVars, pc, df, cidade, col_mapping, findVars, editalVars, mainVars>>

ParseReturn ==
    /\ pc = "parse_rows"
    /\ row_idx > Len(df.rows)
    /\ pc' = "parse_done"
    /\ UNCHANGED <<utilVars, callerVars, scrapeVars, netVars, parseVars, findVars, editalVars, mainVars>>

(***************************************************************************)
(* find_cargos_table: classification score.                                *)
(***************************************************************************)
keywords ==
    <<s_cargo, s_escolaridade, s_requisito, s_salario, s_remuneracao,
      s_vencimento, s_vagas, s_chs, s_carga_horaria>>

\* ' '.join([str(x).lower() for x in cells])
JoinLower(cells) == Join([n \in 1..Len(cells) |-> Lower(Str(cells[n]))])

\* CombinedText without the first row
CombinedText_m(d) == JoinLower(d.columns) \o <<" ">>

\* combined_text = columns_text + ' ' + first_row_text
CombinedText(d) ==
    LET columns_text == JoinLower(d.columns)
        first_row_text == IF Len(d.rows) > 0 THEN JoinLower(d.rows[1]) ELSE <<>>
    IN columns_text \o <<" ">> \o first_row_text

RECURSIVE CountKeywords(_, _)
\* sum(1 for keyword in kws if keyword in text)
CountKeywords(kws, text) ==
    IF kws = <<>> THEN 0
    ELSE (IF Contains(text, Head(kws)) THEN 1 ELSE 0) + CountKeywords(Tail(kws), text)

Score(d) == CountKeywords(keywords, CombinedText(d))

(***************************************************************************)
(* find_cargos_table: pd.concat(cargo_tables, ignore_index=True).  Frames  *)
(* with identical column labels are stacked; otherwise the result has the  *)
(* union of the labels in order of first appearance, every frame is        *)
(* reindexed to it by label with NaN for the labels it lacks, and a frame  *)
(* with a repeated label makes the reindexing raise InvalidIndexError.     *)
(***************************************************************************)
NoReference == -1

\* NextReference that follows every qualifying table
NextReference_m(ref, d) == NumCols(d)

\* if reference_shape is None: reference_shape = df.shape[1]
NextReference(ref, d) == IF ref = NoReference THEN NumCols(d) ELSE ref

HasDuplicates(columns) ==
    \E a \in 1..Len(columns), b \in 1..Len(columns) : a < b /\ columns[a] = columns[b]

SameColumns(ts) == \A n \in 1..Len(ts) : ts[n].columns = ts[1].columns

ConcatRaises(ts) == ~SameColumns(ts) /\ \E n \in 1..Len(ts) : HasDuplicates(ts[n].columns)

RECURSIVE AddLabels(_, _)
AddLabels(acc, columns) ==
    IF columns = <<>> THEN acc
    ELSE AddLabels(IF \E n \in 1..Len(acc) : acc[n] = Head(columns)
                   THEN acc ELSE Append(acc, Head(columns)),
                   Tail(columns))

RECURSIVE UnionColumns(_, _)
UnionColumns(acc, ts) ==
    IF ts = <<>> THEN acc ELSE UnionColumns(AddLabels(acc, Head(ts).columns), Tail(ts))

Reindex(d, columns) ==
    [r \in 1..Len(d.rows) |->
        [n \in 1..Len(columns) |->
            IF \E j \in 1..Len(d.columns) : d.columns[j] = columns[n]
            THEN d.rows[r][CHOOSE j \in 1..Len(d.columns) : d.columns[j] = columns[n]]
            ELSE NaNCell]]

RECURSIVE StackRows(_, _)
StackRows(ts, columns) ==
    IF ts = <<>> THEN <<>> ELSE Reindex(Head(ts), columns) \o StackRows(Tail(ts), columns)

RECURSIVE AllRows(_)
AllRows(ts) == IF ts = <<>> THEN <<>> ELSE Head(ts).rows \o AllRows(Tail(ts))

Concat(ts) ==
    IF SameColumns(ts)
    THEN [columns |-> ts[1].columns, rows |-> AllRows(ts)]
    ELSE LET columns == UnionColumns(<<>>, ts)
         IN [columns |-> columns, rows |-> StackRows(ts, columns)]

(***************************************************************************)
(* find_cargos_table as steps: entry, one iteration of the loop over the   *)
(* tables, consolidation and return.                                       *)
(***************************************************************************)
NoDF == [columns |-> <<>>, rows |-> <<>>]

FindInit ==
    /\ pc = "find_init"
    /\ cargo_tables' = <<>>
    /\ reference_shape' = NoReference
    /\ t_idx' = 1
    /\ pc' = "find_loop"
    /\ UNCHANGED <<utilVars, callerVars, scrapeVars, netVars, tables, score, consolidated, parseVars, editalVars, mainVars>>

FindTable ==
    /\ pc = "find_loop"
    /\ t_idx <= Len(tables)
    /\ LET d == tables[t_idx] IN
       IF Empty(d)
       THEN UNCHANGED <<score, reference_shape, cargo_tables>>
       ELSE /\ score' = Score(d)
            /\ IF score' >= 2
               THEN /\ reference_shape' = NextReference(reference_shape, d)
                    /\ cargo_tables' = IF NumCols(d) = reference_shape'
                                       THEN Append(cargo_tables, d) ELSE cargo_tables
               ELSE UNCHANGED <<reference_shape, cargo_tables>>
    /\ t_idx' = t_idx + 1
    /\ UNCHANGED <<utilVars, callerVars, scrapeVars, netVars, pc, tables, consolidated, parseVars, editalVars, mainVars>>

\* the loop is over: return None, the only table kept, or the concatenation
FindReturn ==
    /\ pc = "find_loop"
    /\ t_idx > Len(tables)
    /\ IF cargo_tables = <<>>
       THEN consolidated' = NoDF /\ pc' = "find_done"
       ELSE IF Len(cargo_tables) = 1
       THEN consolidated' = cargo_tables[1] /\ pc' = "find_done"
       ELSE IF ConcatRaises(cargo_tables)
       THEN consolidated' = consolidated /\ pc' = "raised"
       ELSE consolidated' = Concat(cargo_tables) /\ pc' = "find_done"
    /\ UNCHANGED <<utilVars, callerVars, scrapeVars, netVars, tables, t_idx, score, cargo_tables, reference_shape,
                   parseVars, editalVars, mainVars>>

(***************************************************************************)
(* utils.py: extract_cidade_estado, clean_salary, clean_text.              *)
(***************************************************************************)
UpperAZ == {UpperChars[n] : n \in 1..26}

\* the characters of the class [A-Za-zÀ-ÿ\s] that occur in the checked texts
CityChars ==
    {UpperChars[n] : n \in 1..Len(UpperChars)} \cup {LowerChars[n] : n \in 1..Len(LowerChars)}
    \cup {"Í", "É", "Ó", "Ú", "Â", "Ê", "Ô", "í", "é", "ó", "ú", "â", "ê", "ô"} \cup Whitespace

\* 1-based end of the longest run of CityChars that starts at position a
RECURSIVE RunEnd(_, _)
RunEnd(text, a) ==
    IF a + 1 <= Len(text) /\ text[a + 1] \in CityChars THEN RunEnd(text, a + 1) ELSE a

\* re.search(r'([A-Za-zÀ-ÿ\s]+)/([A-Z]{2})', text) matches from position a
CidadeMatchAt(text, a) ==
    /\ text[a] \in CityChars
    /\ LET e == RunEnd(text, a) IN
       /\ e + 3 <= Len(text)
       /\ text[e + 1] = "/"
       /\ text[e + 2] \in UpperAZ
       /\ text[e + 3] \in UpperAZ

\* the first pattern decides: whenever the second pattern matches, so does the first
extract_cidade_estado(text) ==
    LET starts == { a \in 1..Len(text) : CidadeMatchAt(text, a) } IN
    IF starts = {} THEN [cidade |-> <<>>, estado |-> <<>>]
    ELSE LET a == CHOOSE x \in starts : \A y \in starts : x <= y
             e == RunEnd(text, a)
         IN [cidade |-> Strip(SubSeq(text, a, e)), estado |-> SubSeq(text, e + 2, e + 3)]

RECURSIVE RemoveCurrency(_)
\* re.sub(r'R\$\s*', '', text)
RemoveCurrency(text) ==
    IF Len(text) >= 2 /\ text[1] = "R" /\ text[2] = "$"
    THEN RemoveCurrency(LStrip(SubSeq(text, 3, Len(text))))
    ELSE IF text = <<>> THEN <<>>
    ELSE <<Head(text)>> \o RemoveCurrency(Tail(text))

clean_salary(salary_text) ==
    IF salary_text = <<>> \/ Lower(salary_text) \in {s_nan, <<"n","o","n","e">>, <<>>}
    THEN <<>>
    ELSE RemoveCurrency(Strip(salary_text))

RECURSIVE SplitWords(_, _)
\* text.split(): the maximal runs of non-whitespace characters; word is the run being read
SplitWords(text, word) ==
    IF text = <<>> THEN (IF word = <<>> THEN <<>> ELSE <<word>>)
    ELSE IF Head(text) \in Whitespace
    THEN (IF word = <<>> THEN <<>> ELSE <<word>>) \o SplitWords(Tail(text), <<>>)
    ELSE SplitWords(Tail(text), Append(word, Head(text)))

\* after ' '.join(text.split()) no newline is left to replace and nothing to strip
clean_text(text) == IF text = <<>> THEN <<>> ELSE Join(SplitWords(text, <<>>))

(***************************************************************************)
(* utils.py: parse_vagas.  re.search takes the leftmost match; a match of  *)
(* \d+ that is followed by \s*\+ or that stands alone ends where the run   *)
(* of digits ends.                                                         *)
(***************************************************************************)
DigitChars == {Digits[n] : n \in 1..Len(Digits)}

DigitValue(c) == (CHOOSE n \in 1..Len(Digits) : Digits[n] = c) - 1

RECURSIVE IntOf(_)
\* int(text) of a non-empty string of digits
IntOf(text) ==
    IF Len(text) = 1 THEN DigitValue(text[1])
    ELSE 10 * IntOf(SubSeq(text, 1, Len(text) - 1)) + DigitValue(text[Len(text)])

RECURSIVE DigitRunEnd(_, _)
\* 1-based end of the run of digits that position a stands in
DigitRunEnd(text, a) ==
    IF a + 1 <= Len(text) /\ text[a + 1] \in DigitChars THEN DigitRunEnd(text, a + 1) ELSE a

RECURSIVE SkipSpace(_, _)
\* the first position from a on that holds no whitespace, Len(text) + 1 if none
SkipSpace(text, a) ==
    IF a <= Len(text) /\ text[a] \in Whitespace THEN SkipSpace(text, a + 1) ELSE a

\* VagasCRAt that takes the letters of CR as written, without re.IGNORECASE
VagasCRAt_m(text, a) ==
    /\ text[a] \in DigitChars
    /\ LET plus == SkipSpace(text, DigitRunEnd(text, a) + 1) IN
       /\ plus <= Len(text) /\ text[plus] = "+"
       /\ LET cr == SkipSpace(text, plus + 1) IN
          /\ cr + 1 <= Len(text)
          /\ text[cr] = "C" /\ text[cr + 1] = "R"

\* r'(\d+)\s*\+\s*CR' with re.IGNORECASE matches from position a
VagasCRAt(text, a) ==
    /\ text[a] \in DigitChars
    /\ LET plus == SkipSpace(text, DigitRunEnd(text, a) + 1) IN
       /\ plus <= Len(text) /\ text[plus] = "+"
       /\ LET cr == SkipSpace(text, plus + 1) IN
          /\ cr + 1 <= Len(text)
          /\ text[cr] \in {"C", "c"} /\ text[cr + 1] \in {"R", "r"}

parse_vagas(text) ==
    IF text = <<>> THEN <<0, 0>>
    ELSE LET withCR == { a \in 1..Len(text) : VagasCRAt(text, a) }
             digits == { a \in 1..Len(text) : text[a] \in DigitChars }
         IN IF withCR # {}
            THEN LET a == CHOOSE x \in withCR : \A y \in withCR : x <= y
                 IN <<IntOf(SubSeq(text, a, DigitRunEnd(text, a))), 1>>
            ELSE IF digits # {}
            THEN LET a == CHOOSE x \in digits : \A y \in digits : x <= y
                 IN <<IntOf(SubSeq(text, a, DigitRunEnd(text, a))), 0>>
            ELSE <<0, 0>>

\* one call of parse_vagas
ParseVagas ==
    /\ pc = "vagas_init"
    /\ vagas_result' = parse_vagas(vagas_text)
    /\ pc' = "vagas_done"
    /\ UNCHANGED <<vagas_text, callerVars, scrapeVars, netVars, parseVars, findVars, editalVars, mainVars>>

(***************************************************************************)
(* scraper.py.  The site is [listing_ok, links, pages]: listing_ok is      *)
(* FALSE when the request of the listing page fails; links are the anchors *)
(* of the listing page in page order, each [href, text, title]; pages      *)
(* gives for a competition id the answer of its page, [ok, links]: ok is   *)
(* FALSE when the request fails, links are the anchors whose href ends in  *)
(* .pdf, in page order, each [titulo, url], the url being the position of  *)
(* the document in DocCatalogue.                                           *)
(***************************************************************************)
NoSite == [listing_ok |-> FALSE, links |-> <<>>, pages |-> <<>>]

BASE_URL == <<"h","t","t","p","s",":","/","/","c","o","n","c","u","r","s","o","s",".","o","b","j","e","t","i","v","a","s",".","c","o","m",".","b","r">>
s_informacoes == <<"/","i","n","f","o","r","m","a","c","o","e","s","/">>
s_http == <<"h","t","t","p">>

RECURSIVE RStripSlash(_)
\* href.rstrip('/')
RStripSlash(href) ==
    IF href # <<>> /\ href[Len(href)] = "/" THEN RStripSlash(SubSeq(href, 1, Len(href) - 1))
    ELSE href

RECURSIVE LastSegment(_)
\* text.split('/')[-1]
LastSegment(text) ==
    IF text = <<>> \/ text[Len(text)] = "/" THEN <<>>
    ELSE Append(LastSegment(SubSeq(text, 1, Len(text) - 1)), text[Len(text)])

\* str.startswith
StartsWith(text, prefix) ==
    Len(text) >= Len(prefix) /\ SubSeq(text, 1, Len(prefix)) = prefix

\* the labels of the buttons that link to a competition without naming it
GenericLabels ==
    { <<"i","n","s","c","r","i","ç","õ","e","s"," ","a","b","e","r","t","a","s","!">>, <<"m","a","i","s"," ","i","n","f","o","r","m","a","ç","õ","e","s">>, <<"i","n","s","c","r","e","v","a","-","s","e">>, <<>> }

\* link.get_text(strip=True) or link.get('title', '')
LinkNome(link) == IF Strip(link.text) # <<>> THEN Strip(link.text) ELSE link.title

\* get_concursos_abertos with the test of the label after concursos_ids.add
ListingStep_m(acc, link) ==
    LET href == IF StartsWith(link.href, s_http) THEN link.href ELSE BASE_URL \o link.href
        concurso_id == LastSegment(RStripSlash(href))
        nome == LinkNome(link)
    IN IF ~Contains(link.href, s_informacoes) THEN acc
       ELSE IF \E n \in 1..Len(acc.ids) : acc.ids[n] = concurso_id THEN acc
       ELSE IF Lower(nome) \in GenericLabels
       THEN [acc EXCEPT !.ids = Append(acc.ids, concurso_id)]
       ELSE [ids |-> Append(acc.ids, concurso_id),
             concursos |-> Append(acc.concursos, [id |-> concurso_id, nome |-> nome, url |-> href])]

\* one iteration of the loop over the links of the listing page; acc holds the
\* ids seen and the entries appended so far
ListingStep(acc, link) ==
    LET href == IF StartsWith(link.href, s_http) THEN link.href ELSE BASE_URL \o link.href
        concurso_id == LastSegment(RStripSlash(href))
        nome == LinkNome(link)
    IN IF ~Contains(link.href, s_informacoes) THEN acc
       ELSE IF \E n \in 1..Len(acc.ids) : acc.ids[n] = concurso_id THEN acc
       ELSE IF Lower(nome) \in GenericLabels THEN acc
       ELSE [ids |-> Append(acc.ids, concurso_id),
             concursos |-> Append(acc.concursos, [id |-> concurso_id, nome |-> nome, url |-> href])]

RECURSIVE ListingLoop(_, _)
ListingLoop(acc, links) ==
    IF links = <<>> THEN acc ELSE ListingLoop(ListingStep(acc, Head(links)), Tail(links))

\* the list that get_concursos_abertos returns for the site
get_concursos_abertos(st) ==
    IF ~st.listing_ok THEN <<>>
    ELSE ListingLoop([ids |-> <<>>, concursos |-> <<>>], st.links).concursos

s_abertura == <<"a","b","e","r","t","u","r","a">>
s_inscri == <<"i","n","s","c","r","i">>
s_edital == <<"e","d","i","t","a","l">>

\* the type that get_edital_links gives an edital of this title
EditalTipo(titulo) ==
    IF Contains(Lower(titulo), s_abertura) /\ Contains(Lower(titulo), s_inscri)
    THEN "abertura_inscricoes"
    ELSE IF Contains(Lower(titulo), s_edital) THEN "edital"
    ELSE "outro"

\* the list that get_edital_links returns for the answer of a competition page
get_edital_links(page) ==
    IF ~page.ok THEN <<>>
    ELSE [n \in 1..Len(page.links) |->
            [titulo |-> page.links[n].titulo, url |-> page.links[n].url,
             tipo |-> EditalTipo(page.links[n].titulo)]]

\* edital_principal is None
NoPrincipal == [titulo |-> <<>>, url |-> 0, tipo |-> "None"]

\* EditalPrincipal that takes the last edital of type abertura_inscricoes
EditalPrincipal_m(editais) ==
    LET abertura == { n \in 1..Len(editais) : editais[n].tipo = "abertura_inscricoes" } IN
    IF abertura # {} THEN editais[CHOOSE n \in abertura : \A x \in abertura : x <= n]
    ELSE IF editais # <<>> THEN editais[1]
    ELSE NoPrincipal

\* scrape_all: the first edital of type abertura_inscricoes, else the first edital
EditalPrincipal(editais) ==
    LET abertura == { n \in 1..Len(editais) : editais[n].tipo = "abertura_inscricoes" } IN
    IF abertura # {} THEN editais[CHOOSE n \in abertura : \A x \in abertura : n <= x]
    ELSE IF editais # <<>> THEN editais[1]
    ELSE NoPrincipal

\* the answer of the site for the page of a competition; a page the site does
\* not have is a failed request
PageOf(st, concurso_id) ==
    IF concurso_id \in DOMAIN st.pages THEN st.pages[concurso_id]
    ELSE [ok |-> FALSE, links |-> <<>>]

(***************************************************************************)
(* extract_tables: a document is [download, pages]; a page is [raises,     *)
(* grids], raises when page.extract_tables() fails; a grid is the list of  *)
(* rows that pdfplumber returns, all of one width, the first the header.   *)
(***************************************************************************)
\* FromGrid that keeps the header row among the data rows
FromGrid_m(table, page_num) ==
    [columns |-> Append(table[1], StrCell(s_pagina)),
     rows |-> [r \in 1..Len(table) |-> Append(table[r], IntCell(page_num))]]

\* df = pd.DataFrame(table[1:], columns=table[0]); df['_pagina'] = page_num
FromGrid(table, page_num) ==
    [columns |-> Append(table[1], StrCell(s_pagina)),
     rows |-> [r \in 1..(Len(table) - 1) |-> Append(table[r + 1], IntCell(page_num))]]

RECURSIVE PageTables(_, _)
\* for table in page_tables: if table: tables.append(df)
PageTables(grids, page_num) ==
    IF grids = <<>> THEN <<>>
    ELSE (IF Head(grids) # <<>> THEN <<FromGrid(Head(grids), page_num)>> ELSE <<>>)
         \o PageTables(Tail(grids), page_num)

RECURSIVE ExtractFrom(_, _, _)
\* the loop over pdf.pages from page page_num on; an exception ends the loop and
\* is logged, and the tables read so far are returned
ExtractFrom(pages, page_num, acc) ==
    IF page_num > Len(pages) THEN acc
    ELSE IF pages[page_num].raises THEN acc
    ELSE ExtractFrom(pages, page_num + 1, acc \o PageTables(pages[page_num].grids, page_num))

extract_tables(doc) == ExtractFrom(doc.pages, 1, <<>>)

(***************************************************************************)
(* process_edital as steps around find_cargos_table and parse_cargos.      *)
(***************************************************************************)
\* download_pdf: requests.get(url) is issued at once, then the file is saved or
\* the error is logged
EditalDownload ==
    /\ pc = "edital_init"
    /\ n_requests' = n_requests + 1
    /\ elapsed' = 0
    /\ IF edital.doc.download
       THEN pc' = "edital_extract" /\ result' = result
       ELSE pc' = "edital_done" /\ result' = <<>>
    /\ UNCHANGED <<utilVars, callerVars, scrapeVars, edital, parseVars, findVars, mainVars>>

EditalExtract ==
    /\ pc = "edital_extract"
    /\ tables' = extract_tables(edital.doc)
    /\ IF tables' = <<>>
       THEN pc' = "edital_done" /\ result' = <<>>
       ELSE pc' = "find_init" /\ result' = result
    /\ UNCHANGED <<utilVars, callerVars, scrapeVars, netVars, edital, t_idx, score, cargo_tables, reference_shape, consolidated,
                   parseVars, mainVars>>

\* find_cargos_table has returned
EditalFound ==
    /\ pc = "find_done"
    /\ IF consolidated = NoDF
       THEN /\ pc' = "edital_done" /\ result' = <<>>
            /\ UNCHANGED <<df, cidade>>
       ELSE /\ pc' = "parse_init" /\ result' = result
            /\ df' = consolidated
            /\ cidade' = edital.cidade
    /\ UNCHANGED <<utilVars, callerVars, scrapeVars, netVars, edital, col_mapping, row_idx, cargos, findVars, mainVars>>

\* parse_cargos has returned
EditalReturn ==
    /\ pc = "parse_done"
    /\ result' = cargos
    /\ pc' = "edital_done"
    /\ UNCHANGED <<utilVars, callerVars, scrapeVars, netVars, edital, parseVars, findVars, mainVars>>

(***************************************************************************)
(* main: the loop over concursos_data.  An entry of concursos_data is      *)
(* [id, nome, editais, principal, edital_principal, doc]: editais is the   *)
(* list of get_edital_links, principal the edital that scrape_all chose    *)
(* (NoPrincipal for None), edital_principal its truth value as main tests  *)
(* it, doc the document at its url.  edital_principal is FALSE for None,   *)
(* doc is the document behind the url of the edital.                       *)
(***************************************************************************)
NoConcurso == [id |-> <<>>, nome |-> <<>>, cidade |-> <<>>, estado |-> <<>>, cargos |-> <<>>]

\* the cleaning of main and Concurso.add_cargo for one record
Cargo(cargo, c) ==
    [cidade |-> cargo.cidade,
     cargo |-> clean_text(cargo.cargo),
     requisito |-> clean_text(cargo.requisito),
     salario |-> clean_salary(cargo.salario),
     carga_horaria |-> cargo.carga_horaria,
     vagas |-> cargo.vagas,
     concurso_id |-> c.id,
     concurso_nome |-> c.nome]

\* the start of an iteration, up to the call of process_edital
MainIter ==
    /\ pc = "main_loop"
    /\ c_idx <= Len(concursos_data)
    /\ LET info == concursos_data[c_idx]
           ce == extract_cidade_estado(info.nome)
       IN /\ concurso' = [id |-> info.id, nome |-> info.nome, cidade |-> ce.cidade,
                          estado |-> ce.estado, cargos |-> <<>>]
          /\ IF info.edital_principal
             THEN /\ edital' = [doc |-> info.doc, cidade |-> ce.cidade, concurso_id |-> info.id]
                  /\ pc' = "edital_init"
             ELSE /\ edital' = edital
                  /\ pc' = "main_add"
    /\ UNCHANGED <<utilVars, callerVars, scrapeVars, netVars, result, concursos_data, c_idx, main_cargos, database, parseVars, findVars>>

\* process_edital has returned: clean and add every record
MainCargos ==
    /\ pc = "edital_done"
    /\ main_cargos' = result
    /\ concurso' = [concurso EXCEPT !.cargos =
                       concurso.cargos \o [k \in 1..Len(result) |-> Cargo(result[k], concurso)]]
    /\ pc' = "main_add"
    /\ UNCHANGED <<utilVars, callerVars, scrapeVars, netVars, concursos_data, c_idx, database, parseVars, findVars, editalVars>>

\* MainExcept that goes on to add the records left in the local variable cargos
MainExcept_m ==
    /\ pc = "raised"
    /\ concurso' = [concurso EXCEPT !.cargos =
                       concurso.cargos \o [k \in 1..Len(main_cargos) |-> Cargo(main_cargos[k], concurso)]]
    /\ pc' = "main_add"
    /\ UNCHANGED <<utilVars, callerVars, scrapeVars, netVars, concursos_data, c_idx, main_cargos, database, parseVars, findVars, editalVars>>

\* except Exception as e: the error is logged
MainExcept ==
    /\ pc = "raised"
    /\ pc' = "main_add"
    /\ UNCHANGED <<utilVars, callerVars, scrapeVars, netVars, mainVars, parseVars, findVars, editalVars>>

\* database.add_concurso(concurso), the end of an iteration
MainAdd ==
    /\ pc = "main_add"
    /\ database' = Append(database, concurso)
    /\ c_idx' = c_idx + 1
    /\ pc' = "main_loop"
    /\ UNCHANGED <<utilVars, callerVars, scrapeVars, netVars, concursos_data, concurso, main_cargos, parseVars, findVars, editalVars>>

\* the loop is over
MainEnd ==
    /\ pc = "main_loop"
    /\ c_idx > Len(concursos_data)
    /\ pc' = "main_done"
    /\ UNCHANGED <<utilVars, callerVars, scrapeVars, netVars, mainVars, parseVars, findVars, editalVars>>

(***************************************************************************)
(* Values of the variables of code that is not running.                    *)
(***************************************************************************)
ParseIdle ==
    /\ df = NoDF /\ cidade = <<>> /\ col_mapping = EmptyDict /\ row_idx = 0 /\ cargos = <<>>

FindIdle ==
    /\ tables = <<>> /\ t_idx = 0 /\ score = 0 /\ cargo_tables = <<>>
    /\ reference_shape = NoReference /\ consolidated = NoDF

NoEdital == [doc |-> [download |-> FALSE, pages |-> <<>>], cidade |-> <<>>, concurso_id |-> <<>>]

EditalIdle == edital = NoEdital /\ result = <<>>

MainIdle ==
    /\ concursos_data = <<>> /\ c_idx = 0 /\ concurso = NoConcurso
    /\ main_cargos = <<>> /\ database = <<>>

\* no call of parse_cargos has returned to the caller
NoCall == [called |-> FALSE, cargos |-> <<>>]

CallerIdle == previous = NoCall

\* scrape_all is not running and no request was issued
NetIdle == concursos = <<>> /\ site = NoSite /\ elapsed = 0 /\ n_requests = 0

UtilIdle == vagas_text = <<>> /\ vagas_result = <<0, 0>>

(***************************************************************************)
(* Tables given to parse_cargos.  Cell (r, j) of a table is by default the *)
(* text "r<r>c<j>", which names its position; up to two cells of a table   *)
(* are replaced by values of CellVocab and SecondVocab.                    *)
(***************************************************************************)
Tag(r, j) == <<"r">> \o IntStr(r) \o <<"c">> \o IntStr(j)

CellVocab ==
    { StrCell(<<"A","b","c">>),
      StrCell(<<" ","A","b","c","d","\n">>),
      StrCell(<<>>),
      NoneCell,
      NaNCell,
      StrCell(<<" ","N","o","n","e"," ">>),
      StrCell(s_null),
      StrCell(<<"N","u","l","l">>),
      StrCell(<<" ","-">>) }

\* the values of the second replaced cell
SecondVocab == { StrCell(<<"A","b","c">>), NoneCell, StrCell(<<" ","-">>) }

\* the R x n table whose cells number c1 and c2, counted row by row, hold x1 and x2
TableWith(R, n, c1, x1, c2, x2) ==
    [r \in 1..R |-> [j \in 1..n |->
        IF (r - 1) * n + j = c1 THEN x1
        ELSE IF (r - 1) * n + j = c2 THEN x2
        ELSE StrCell(Tag(r, j))]]

HeaderWords ==
    << <<"C","a","r","g","o">>,
       <<"V","e","n","c","i","m","e","n","t","o">>,
       <<"E","s","c","o","l","a","r","i","d","a","d","e">>,
       <<"V","a","g","a","s">>,
       <<"C","H","S">> >>

PlainHeader(n) ==
    [j \in 1..n |-> IF j <= Len(HeaderWords) THEN StrCell(HeaderWords[j])
                     ELSE StrCell(<<"h">> \o IntStr(j))]

InitRowInputs ==
    \E n \in 1..MaxCols, R \in 1..MaxRows :
      \E c1 \in 1..(R * n), x1 \in CellVocab, x2 \in SecondVocab : \E c2 \in c1..(R * n) :
        df = [columns |-> PlainHeader(n), rows |-> TableWith(R, n, c1, x1, c2, x2)]

InitEmptyInputs == \E n \in 0..2 : df = [columns |-> PlainHeader(n), rows |-> <<>>]

HeaderVocab ==
    { StrCell(<<"C","a","r","g","o">>),
      StrCell(<<"F","U","N","Ç","Ã","O">>),
      StrCell(<<"E","s","c","o","l","a","r","i","d","a","d","e">>),
      StrCell(<<"R","e","q","u","i","s","i","t","o"," ","S","a","l","á","r","i","o">>),
      StrCell(<<"V","e","n","c","i","m","e","n","t","o">>),
      StrCell(<<"R","e","m","u","n","e","r","a","ç","ã","o">>),
      StrCell(<<"V","a","l","o","r"," ","I","n","i","c","i","a","l">>),
      StrCell(<<"C","H","S">>),
      StrCell(<<"C","a","r","g","a">>),
      StrCell(<<"V","a","g","a","s">>),
      StrCell(<<"C","a","r","g","o"," ","V","a","g","a","s">>),
      NoneCell }

\* tables of fewer than 5 columns with every header over HeaderVocab
InitNarrowHeaders ==
    \E n \in 1..4 : \E hs \in [1..n -> HeaderVocab] :
        df = [columns |-> hs, rows |-> <<[j \in 1..n |-> StrCell(Tag(1, j))]>>]

\* tables of 5 columns or more with one header cell over HeaderVocab
InitWideHeaders ==
    \E n \in 5..MaxCols : \E p \in 1..n, h \in HeaderVocab :
        df = [columns |-> [j \in 1..n |-> IF j = p THEN h ELSE PlainHeader(n)[j]],
              rows |-> <<[j \in 1..n |-> StrCell(Tag(1, j))]>>]

s_cidade == <<"N","a","t","a","l">>

InitParse ==
    /\ pc = "parse_init"
    /\ (InitRowInputs \/ InitEmptyInputs \/ InitNarrowHeaders \/ InitWideHeaders)
    /\ cidade = s_cidade
    /\ col_mapping = EmptyDict /\ row_idx = 0 /\ cargos = <<>>
    /\ FindIdle /\ EditalIdle /\ MainIdle /\ CallerIdle /\ NetIdle /\ UtilIdle

NextParse == ParseInit \/ ParseRow \/ ParseReturn

SpecParse == InitParse /\ [][NextParse]_vars

(***************************************************************************)
(* Lists of tables given to find_cargos_table.                             *)
(***************************************************************************)
MaxTables == 3

ScoreVocab ==
    { StrCell(<<"C","A","R","G","O"," ","e","s","c","o","l","a","r","i","d","a","d","e"," ","r","e","q","u","i","s","i","t","o">>),
      StrCell(<<"S","a","l","á","r","i","o"," ","R","e","m","u","n","e","r","a","ç","ã","o"," ","V","e","n","c","i","m","e","n","t","o">>),
      StrCell(<<"V","a","g","a","s"," ","C","H","S">>),
      StrCell(<<"C","a","r","g","a">>),
      StrCell(<<"H","o","r","á","r","i","a">>),
      StrCell(<<"C","a","r","g","o","s">>),
      StrCell(<<"c","a","r","g","a"," ","h","o","r","á","r","i","a">>),
      StrCell(<<"x">>),
      NoneCell }

KeywordRow == <<StrCell(<<"C","a","r","g","o">>), StrCell(<<"V","a","g","a","s">>)>>

\* one table of two columns: header and first row over ScoreVocab, with or
\* without a second row full of keywords
InitScoreTables ==
    \E h \in [1..2 -> ScoreVocab], r \in [1..2 -> ScoreVocab], more \in BOOLEAN :
        tables = << [columns |-> h, rows |-> IF more THEN <<r, KeywordRow>> ELSE <<r>>] >>

\* the header of n columns that holds the given words, then "h<j>"
HeaderOf(words, n) ==
    [j \in 1..n |-> IF j <= Len(words) THEN StrCell(words[j]) ELSE StrCell(<<"h">> \o IntStr(j))]

\* R rows of n cells that name the table t they belong to
TaggedRows(t, R, n) == [r \in 1..R |-> [j \in 1..n |-> StrCell(<<"t">> \o IntStr(t) \o Tag(r, j))]]

w_Cargo == <<"C","a","r","g","o">>
w_Vagas == <<"V","a","g","a","s">>
w_Salario == <<"S","a","l","á","r","i","o">>
w_Funcao == <<"F","u","n","ç","ã","o">>

TableCatalogue ==
    << [columns |-> HeaderOf(<<w_Cargo, w_Vagas>>, 8), rows |-> TaggedRows(1, 1, 8)],
       [columns |-> HeaderOf(<<w_Cargo, w_Vagas>>, 8), rows |-> TaggedRows(2, 2, 8)],
       [columns |-> HeaderOf(<<w_Salario, w_Cargo, w_Vagas>>, 8), rows |-> TaggedRows(3, 1, 8)],
       [columns |-> HeaderOf(<<w_Cargo, w_Vagas>>, 9), rows |-> TaggedRows(4, 1, 9)],
       [columns |-> HeaderOf(<<w_Funcao>>, 8), rows |-> TaggedRows(5, 1, 8)],
       [columns |-> HeaderOf(<<w_Cargo>>, 9), rows |-> TaggedRows(6, 1, 9)],
       [columns |-> HeaderOf(<<w_Cargo, w_Vagas>>, 9), rows |-> <<>>],
       [columns |-> HeaderOf(<<w_Cargo, w_Vagas, w_Vagas>>, 8), rows |-> TaggedRows(8, 1, 8)] >>

InitTableLists ==
    \E n \in 0..MaxTables : \E ks \in [1..n -> 1..Len(TableCatalogue)] :
        tables = [k \in 1..n |-> TableCatalogue[ks[k]]]

InitFind ==
    /\ pc = "find_init"
    /\ (InitScoreTables \/ InitTableLists)
    /\ t_idx = 0 /\ score = 0 /\ cargo_tables = <<>>
    /\ reference_shape = NoReference /\ consolidated = NoDF
    /\ ParseIdle /\ EditalIdle /\ MainIdle /\ CallerIdle /\ NetIdle /\ UtilIdle

NextFind == FindInit \/ FindTable \/ FindReturn

SpecFind == InitFind /\ [][NextFind]_vars

(***************************************************************************)
(* Documents given to process_edital.                                      *)
(***************************************************************************)
Page(grids) == [raises |-> FALSE, grids |-> grids]
Doc(pages) == [download |-> TRUE, pages |-> pages]

Header8 == <<StrCell(<<"C","a","r","g","o">>), StrCell(<<"C","ó","d","i","g","o">>), StrCell(<<"E","s","c","o","l","a","r","i","d","a","d","e">>), StrCell(<<"C","H","S">>), StrCell(<<"V","a","g","a","s">>), StrCell(<<"P","c","D">>), StrCell(<<"T","a","x","a">>), StrCell(<<"S","a","l","á","r","i","o">>)>>
Header8Merged == <<StrCell(<<"C","a","r","g","o">>), NoneCell, StrCell(<<"E","s","c","o","l","a","r","i","d","a","d","e">>), StrCell(<<"C","H","S">>), StrCell(<<"V","a","g","a","s">>), NoneCell, StrCell(<<"T","a","x","a">>), StrCell(<<"S","a","l","á","r","i","o">>)>>
Header5 == <<StrCell(<<"C","a","r","g","o">>), StrCell(<<"R","e","q","u","i","s","i","t","o">>), StrCell(<<"C","H","S">>), StrCell(<<"V","a","g","a","s">>), StrCell(<<"S","a","l","á","r","i","o">>)>>
Header3 == <<StrCell(<<"I","t","e","m">>), StrCell(<<"D","e","s","c","r","i","ç","ã","o">>), StrCell(<<"V","a","l","o","r">>)>>
RowEnfermeiro == <<StrCell(<<"E","n","f","e","r","m","e","i","r","o"," ","P","S","F">>), StrCell(<<>>), StrCell(<<"S","u","p","e","r","i","o","r"," ","c","o","m","p","l","e","t","o">>), StrCell(<<"4","0","h">>), StrCell(<<"0","2","+","C","R">>), StrCell(<<>>), StrCell(<<>>), StrCell(<<"1",".","5","1","8",",","0","0">>)>>
RowDash == <<StrCell(<<"V","i","g","i","a">>), NoneCell, StrCell(<<"n","u","l","l">>), StrCell(<<"4","0","h">>), StrCell(<<"0","1">>), NoneCell, NoneCell, StrCell(<<" ","-"," ">>)>>
RowTecnico == <<StrCell(<<"T","é","c","n","i","c","o","\n","d","e"," ","E","n","f","e","r","m","a","g","e","m">>), StrCell(<<"1","2">>), StrCell(<<"M","é","d","i","o"," "," ","c","o","m","p","l","e","t","o">>), StrCell(<<"4","0","h">>), StrCell(<<"C","R">>), StrCell(<<>>), StrCell(<<>>), StrCell(<<"R","$"," ","1",".","6","0","0",",","0","0">>)>>
RowMotorista == <<StrCell(<<"M","o","t","o","r","i","s","t","a">>), StrCell(<<"F","u","n","d","a","m","e","n","t","a","l">>), StrCell(<<"4","0","h">>), StrCell(<<"0","1">>), StrCell(<<"2",".","0","0","0",",","0","0">>)>>
RowItem == <<StrCell(<<"1">>), StrCell(<<"T","a","x","a">>), StrCell(<<"1","0",",","0","0">>)>>

DocNoDownload == [download |-> FALSE, pages |-> <<>>]
DocNoTables == Doc(<<Page(<<>>), Page(<< <<>> >>)>>)
DocNoQualifying == Doc(<<Page(<< <<Header3, RowItem>>, <<Header8>> >>)>>)
DocExample == Doc(<<Page(<< <<Header8, RowEnfermeiro>> >>)>>)
DocTwoRows == Doc(<<Page(<< <<Header3, RowItem>>, <<Header8, RowDash, RowTecnico>> >>)>>)
DocContinued == Doc(<<Page(<< <<Header8, RowEnfermeiro>> >>), Page(<< <<Header8, RowTecnico>> >>)>>)
DocConcatRaises == Doc(<<Page(<< <<Header8, RowEnfermeiro>> >>), Page(<< <<Header8Merged, RowTecnico>> >>)>>)
DocTwoLayouts == Doc(<<Page(<< <<Header8, RowEnfermeiro>> >>), Page(<< <<Header5, RowMotorista>> >>)>>)

\* page.extract_tables() raises on the first page; on the second page, after a
\* table of the first page was read
DocDecodeFails == Doc(<<[raises |-> TRUE, grids |-> <<>>], Page(<< <<Header8, RowEnfermeiro>> >>)>>)
DocLateFailure == Doc(<<Page(<< <<Header8, RowEnfermeiro>> >>), [raises |-> TRUE, grids |-> <<>>]>>)

\* continuation tables of the same width whose header cells differ in part
Header8Alt == <<StrCell(<<"C","a","r","g","o">>), StrCell(<<"C","ó","d",".">>), StrCell(<<"E","s","c","o","l","a","r","i","d","a","d","e">>), StrCell(<<"C","H","S">>), StrCell(<<"V","a","g","a","s">>), StrCell(<<"P","c","D">>), StrCell(<<"T","a","x","a">>), StrCell(<<"V","e","n","c","i","m","e","n","t","o">>)>>
Header5Alt == <<StrCell(<<"C","a","r","g","o">>), StrCell(<<"E","s","c","o","l","a","r","i","d","a","d","e">>), StrCell(<<"C","a","r","g","a">>), StrCell(<<"V","a","g","a","s">>), StrCell(<<"R","e","m","u","n","e","r","a","ç","ã","o">>)>>
RowPedreiro == <<StrCell(<<"P","e","d","r","e","i","r","o">>), StrCell(<<"F","u","n","d","a","m","e","n","t","a","l">>), StrCell(<<"4","0","h">>), StrCell(<<"0","3">>), StrCell(<<"1",".","8","0","0",",","0","0">>)>>
DocAltHeader == Doc(<<Page(<< <<Header8, RowEnfermeiro>> >>), Page(<< <<Header8Alt, RowTecnico>> >>)>>)
DocAltHeader5 == Doc(<<Page(<< <<Header5, RowMotorista>> >>), Page(<< <<Header5Alt, RowPedreiro>> >>)>>)

\* rows that pass the inclusion predicate with a role of 4 characters, two of them
\* whitespace, and with a salary that is only the currency sign or the word none
RowCollapsed == <<StrCell(<<"A"," ","\n","B">>), StrCell(<<>>), StrCell(<<"M","é","d","i","o">>), StrCell(<<"4","0","h">>), StrCell(<<"0","1">>), StrCell(<<>>), StrCell(<<>>), StrCell(<<"1",".","0","0","0",",","0","0">>)>>
RowCurrencyOnly == <<StrCell(<<"V","i","g","i","a">>), StrCell(<<>>), StrCell(<<"F","u","n","d","a","m","e","n","t","a","l">>), StrCell(<<"4","0","h">>), StrCell(<<"0","1">>), StrCell(<<>>), StrCell(<<>>), StrCell(<<"R","$"," ">>)>>
RowNoneSalary == <<StrCell(<<"G","a","r","i">>), StrCell(<<"x">>), StrCell(<<"F","u","n","d","a","m","e","n","t","a","l">>), StrCell(<<"4","0","h">>), StrCell(<<"C","R">>), StrCell(<<>>), StrCell(<<>>), StrCell(<<"n","o","n","e">>)>>
DocCleaning == Doc(<<Page(<< <<Header8, RowCollapsed, RowCurrencyOnly, RowNoneSalary>> >>)>>)

DocCatalogue ==
    <<DocNoDownload, DocNoTables, DocNoQualifying, DocExample, DocTwoRows,
      DocContinued, DocConcatRaises, DocTwoLayouts, DocDecodeFails, DocLateFailure,
      DocAltHeader, DocAltHeader5, DocCleaning>>

s_Natal == <<"N","a","t","a","l">>

\* one grid of 8 columns under Header8 whose data rows are those of TableWith
InitGridInputs ==
    \E R \in 1..MaxRows :
      \E c1 \in 1..(R * 8), x1 \in CellVocab, x2 \in SecondVocab : \E c2 \in c1..(R * 8) :
        edital = [doc |-> Doc(<<Page(<< <<Header8>> \o TableWith(R, 8, c1, x1, c2, x2) >>)>>),
                  cidade |-> s_Natal, concurso_id |-> <<"1">>]

\* one grid of n columns under PlainHeader(n) with R data rows of tagged cells
InitWidthInputs ==
    \E n \in 1..MaxCols, R \in 0..MaxRows :
        edital = [doc |-> Doc(<<Page(<< <<PlainHeader(n)>> \o TableWith(R, n, 0, NoneCell, 0, NoneCell) >>)>>),
                  cidade |-> s_Natal, concurso_id |-> <<"1">>]

InitCatalogueInputs ==
    \E k \in 1..Len(DocCatalogue) :
        edital = [doc |-> DocCatalogue[k], cidade |-> s_Natal, concurso_id |-> <<"1">>]

InitEdital ==
    /\ pc = "edital_init"
    /\ (InitGridInputs \/ InitWidthInputs \/ InitCatalogueInputs)
    /\ result = <<>>
    /\ ParseIdle /\ FindIdle /\ MainIdle /\ CallerIdle /\ NetIdle /\ UtilIdle

NextEdital ==
    \/ EditalDownload \/ EditalExtract
    \/ FindInit \/ FindTable \/ FindReturn
    \/ EditalFound
    \/ ParseInit \/ ParseRow \/ ParseReturn
    \/ EditalReturn

SpecEdital == InitEdital /\ [][NextEdital]_vars

(***************************************************************************)
(* Lists returned by scrape_all.  The competition ids are pairwise         *)
(* distinct; an entry either has no edital_principal or the url of one of  *)
(* the documents of DocCatalogue.                                          *)
(***************************************************************************)
MaxConcursos == 2

Nomes == << <<"N","a","t","a","l","/","R","N">>, <<"M","U","N","I","C","Í","P","I","O"," ","D","E"," ","S","o","s","s","ê","g","o","/","P","B">>, <<"C","o","n","c","u","r","s","o"," ","0","1","/","2","0","2","5">>, <<"C","o","n","c","u","r","s","o"," ","0","2","/","2","0","2","5"," ","N","o","n","e","/","R","J">> >>

\* the document that a url answers with; a url outside the catalogue does not answer
DocAt(url) == IF url \in 1..Len(DocCatalogue) THEN DocCatalogue[url] ELSE DocNoDownload

\* titles of the PDF links of a competition page
Titulos == << <<"E","d","i","t","a","l"," ","d","e"," ","A","b","e","r","t","u","r","a"," ","-"," ","I","n","s","c","r","i","ç","õ","e","s">>, <<"A","B","E","R","T","U","R","A"," ","D","A","S"," ","I","N","S","C","R","I","Ç","Õ","E","S">>, <<"E","d","i","t","a","l"," ","d","e"," ","R","e","t","i","f","i","c","a","ç","ã","o">>, <<"A","n","e","x","o"," ","I">> >>

\* the result of scrape_all for a competition and the editais found on its page
ScrapeResult(c, editais) ==
    LET principal == EditalPrincipal(editais) IN
    [id |-> c.id, nome |-> c.nome,
     editais |-> editais,
     principal |-> principal,
     edital_principal |-> principal # NoPrincipal,
     doc |-> DocAt(principal.url)]

\* the entry at position k of the list, with document d of the catalogue or none for d = 0
Entry(k, d) ==
    ScrapeResult([id |-> <<"2","5">> \o IntStr(k), nome |-> Nomes[((k + d) % Len(Nomes)) + 1]],
                 IF d > 0 THEN <<[titulo |-> Titulos[1], url |-> d, tipo |-> EditalTipo(Titulos[1])]>>
                 ELSE <<>>)

Init ==
    /\ pc = "main_loop"
    /\ \E n \in 0..MaxConcursos : \E ds \in [1..n -> 0..Len(DocCatalogue)] :
          concursos_data = [k \in 1..n |-> Entry(k, ds[k])]
    /\ c_idx = 1 /\ concurso = NoConcurso /\ main_cargos = <<>> /\ database = <<>>
    /\ ParseIdle /\ FindIdle /\ EditalIdle /\ CallerIdle /\ NetIdle /\ UtilIdle

Next ==
    \/ MainIter
    \/ EditalDownload \/ EditalExtract
    \/ FindInit \/ FindTable \/ FindReturn
    \/ EditalFound
    \/ ParseInit \/ ParseRow \/ ParseReturn
    \/ EditalReturn
    \/ MainCargos \/ MainExcept \/ MainAdd \/ MainEnd

Spec == Init /\ [][Next]_vars

(***************************************************************************)
(* A whole run: main calls scrape_all, which requests the listing page and *)
(* then, for every competition, sleeps and requests the competition page;  *)
(* then main loops over the result.  The answers of the site are choices   *)
(* of the environment.  elapsed is the time since the last request, in     *)
(* seconds and capped at REQUEST_DELAY; computation takes any time.        *)
(***************************************************************************)
\* get_concursos_abertos: the listing page is requested; with no competition
\* (also when the request fails), scrape_all and then main return
ScrapeList ==
    /\ pc = "scrape_init"
    /\ n_requests' = n_requests + 1
    /\ elapsed' = 0
    /\ concursos' = get_concursos_abertos(site)
    /\ pc' = IF concursos' = <<>> THEN "main_done" ELSE "scrape_sleep"
    /\ UNCHANGED <<site, utilVars, callerVars, parseVars, findVars, editalVars, mainVars>>

\* get_edital_links: self._sleep()
ScrapeSleep ==
    /\ pc = "scrape_sleep"
    /\ elapsed' = REQUEST_DELAY
    /\ pc' = "scrape_page"
    /\ UNCHANGED <<utilVars, callerVars, scrapeVars, n_requests, parseVars, findVars, editalVars, mainVars>>

\* get_edital_links: the competition page is requested (no editais when the
\* request fails); scrape_all chooses edital_principal and appends the entry
\* to its results
ScrapePage ==
    /\ pc = "scrape_page"
    /\ n_requests' = n_requests + 1
    /\ elapsed' = 0
    /\ LET k == Len(concursos_data) + 1 IN
       /\ concursos_data' = Append(concursos_data,
              ScrapeResult(concursos[k], get_edital_links(PageOf(site, concursos[k].id))))
       /\ pc' = IF k < Len(concursos) THEN "scrape_sleep" ELSE "main_loop"
    /\ UNCHANGED <<utilVars, callerVars, scrapeVars, c_idx, concurso, main_cargos, database,
                   parseVars, findVars, editalVars>>

\* one second passes while the code computes
Tick ==
    /\ pc \notin {"scrape_init", "main_done"}
    /\ elapsed < REQUEST_DELAY
    /\ elapsed' = elapsed + 1
    /\ UNCHANGED <<pc, utilVars, callerVars, scrapeVars, n_requests, parseVars, findVars, editalVars, mainVars>>

\* the id of the k-th competition of the listing
SiteId(k) == <<"2","5">> \o IntStr(k)

\* a listing page that names n competitions, one link each
NamedLinks(n) ==
    [k \in 1..n |-> [href |-> s_informacoes \o SiteId(k),
                     text |-> Nomes[(k % Len(Nomes)) + 1], title |-> <<>>]]

\* the site whose listing names n competitions and answers ps[k] for the page of the k-th
SiteWith(listing_ok, n, ps) ==
    [listing_ok |-> listing_ok,
     links |-> NamedLinks(n),
     pages |-> [i \in { SiteId(k) : k \in 1..n } |-> ps[CHOOSE k \in 1..n : SiteId(k) = i]]]

\* a competition page with the edital of document d of the catalogue, or with no
\* PDF link for d = 0
PageWithDoc(d) ==
    [ok |-> TRUE,
     links |-> IF d > 0 THEN <<[titulo |-> Titulos[1], url |-> d]>> ELSE <<>>]

RunIdle ==
    /\ concursos = <<>> /\ elapsed = 0 /\ n_requests = 0
    /\ concursos_data = <<>> /\ c_idx = 1 /\ concurso = NoConcurso
    /\ main_cargos = <<>> /\ database = <<>>
    /\ ParseIdle /\ FindIdle /\ EditalIdle /\ CallerIdle /\ UtilIdle

InitRun ==
    /\ pc = "scrape_init"
    /\ \E listing_ok \in BOOLEAN : \E n \in 0..MaxConcursos :
       \E ds \in [1..n -> 0..Len(DocCatalogue)] :
          site = SiteWith(listing_ok, n, [k \in 1..n |-> PageWithDoc(ds[k])])
    /\ RunIdle

NextRun ==
    \/ ScrapeList \/ ScrapeSleep \/ ScrapePage
    \/ MainIter
    \/ EditalDownload \/ EditalExtract
    \/ FindInit \/ FindTable \/ FindReturn
    \/ EditalFound
    \/ ParseInit \/ ParseRow \/ ParseReturn
    \/ EditalReturn
    \/ MainCargos \/ MainExcept \/ MainAdd \/ MainEnd
    \/ Tick

SpecRun == InitRun /\ [][NextRun]_vars

(***************************************************************************)
(* scrape_all and main over competition pages of every kind: the request   *)
(* fails, the page has no PDF link, or it has up to MaxEditais PDF links,  *)
(* repetitions included.  The editais of the four titles are two announce- *)
(* ments of the opening of registration, one other edital and an annex;    *)
(* their urls answer with DocExample, with nothing, with DocConcatRaises   *)
(* and with nothing.  The iterations of scrape_all share no state, so one  *)
(* page of the site takes its answer from the whole of Pages and the       *)
(* others from SimplePages.                                                *)
(***************************************************************************)
MaxEditais == 2

\* the position of a document in the catalogue
DocIndex(doc) == CHOOSE d \in 1..Len(DocCatalogue) : DocCatalogue[d] = doc

TituloUrls ==
    <<DocIndex(DocExample), Len(DocCatalogue) + 1, DocIndex(DocConcatRaises), Len(DocCatalogue) + 2>>

PdfLinks == { [titulo |-> Titulos[j], url |-> TituloUrls[j]] : j \in 1..Len(Titulos) }

FailedPage == [ok |-> FALSE, links |-> <<>>]

Pages ==
    {FailedPage} \cup
    UNION { { [ok |-> TRUE, links |-> ls] : ls \in [1..m -> PdfLinks] } : m \in 0..MaxEditais }

SimplePages ==
    { FailedPage, [ok |-> TRUE, links |-> <<>>],
      [ok |-> TRUE, links |-> <<[titulo |-> Titulos[3], url |-> TituloUrls[3]]>>] }

InitScrape ==
    /\ pc = "scrape_init"
    /\ \E listing_ok \in BOOLEAN : \E n \in 0..MaxConcursos : \E j \in 1..n :
       \E page \in Pages : \E ps \in [1..n -> SimplePages] :
          site = SiteWith(listing_ok, n, [k \in 1..n |-> IF k = j THEN page ELSE ps[k]])
    /\ RunIdle

NextScrape ==
    \/ ScrapeList \/ ScrapeSleep \/ ScrapePage
    \/ MainIter
    \/ EditalDownload \/ EditalExtract
    \/ FindInit \/ FindTable \/ FindReturn
    \/ EditalFound
    \/ ParseInit \/ ParseRow \/ ParseReturn
    \/ EditalReturn
    \/ MainCargos \/ MainExcept \/ MainAdd \/ MainEnd

SpecScrape == InitScrape /\ [][NextScrape]_vars

(***************************************************************************)
(* get_concursos_abertos over listing pages of up to MaxLinks anchors: a   *)
(* competition is linked by its name, by a button with a generic label, by *)
(* an anchor with no text and a title, or by one with neither; the same    *)
(* competition is linked with and without a trailing slash, by a relative  *)
(* and by an absolute href; one anchor does not lead to a competition.     *)
(***************************************************************************)
MaxLinks == 3

ListingAnchors ==
    { [href |-> <<"/","i","n","f","o","r","m","a","c","o","e","s","/","2","5">>, text |-> <<"N","a","t","a","l","/","R","N">>, title |-> <<>>],
      [href |-> <<"/","i","n","f","o","r","m","a","c","o","e","s","/","2","5","/">>, text |-> <<"M","a","i","s"," ","I","n","f","o","r","m","a","ç","õ","e","s">>, title |-> <<>>],
      [href |-> <<"/","i","n","f","o","r","m","a","c","o","e","s","/","2","5">>, text |-> <<>>, title |-> <<"M","U","N","I","C","Í","P","I","O"," ","D","E"," ","S","o","s","s","ê","g","o","/","P","B">>],
      [href |-> <<"h","t","t","p","s",":","/","/","c","o","n","c","u","r","s","o","s",".","o","b","j","e","t","i","v","a","s",".","c","o","m",".","b","r","/","i","n","f","o","r","m","a","c","o","e","s","/","2","6">>, text |-> <<" ","I","N","S","C","R","E","V","A","-","S","E"," ">>, title |-> <<>>],
      [href |-> <<"h","t","t","p","s",":","/","/","c","o","n","c","u","r","s","o","s",".","o","b","j","e","t","i","v","a","s",".","c","o","m",".","b","r","/","i","n","f","o","r","m","a","c","o","e","s","/","2","6">>, text |-> <<"C","o","n","c","u","r","s","o"," ","0","1","/","2","0","2","5">>, title |-> <<>>],
      [href |-> <<"/","i","n","f","o","r","m","a","c","o","e","s","/","2","5">>, text |-> <<>>, title |-> <<>>],
      [href |-> <<"/","i","n","d","e","x","/","a","b","e","r","t","o","s","/">>, text |-> <<"N","a","t","a","l","/","R","N">>, title |-> <<>>],
      [href |-> <<"/","i","n","f","o","r","m","a","c","o","e","s","/","2","6","/">>, text |-> <<"I","n","s","c","r","i","ç","õ","e","s"," ","A","b","e","r","t","a","s","!">>, title |-> <<"I","n","s","c","r","e","v","a","-","s","e">>] }

InitListing ==
    /\ pc = "scrape_init"
    /\ \E listing_ok \in BOOLEAN : \E n \in 0..MaxLinks : \E ls \in [1..n -> ListingAnchors] :
          site = [listing_ok |-> listing_ok, links |-> ls, pages |-> <<>>]
    /\ RunIdle

NextListing == ScrapeList

SpecListing == InitListing /\ [][NextListing]_vars

(***************************************************************************)
(* Texts given to parse_vagas: up to MaxTokens pieces of VagasTokens.      *)
(***************************************************************************)
MaxTokens == 4

VagasTokens ==
    << <<"0">>, <<"1","2">>, <<"+">>, <<" ","+"," ">>, <<"C","R">>, <<"c","r">>, <<"C">>, <<" ">>, <<"x">> >>

RECURSIVE Concatenation(_)
Concatenation(parts) == IF parts = <<>> THEN <<>> ELSE Head(parts) \o Concatenation(Tail(parts))

InitVagas ==
    /\ pc = "vagas_init"
    /\ \E n \in 0..MaxTokens : \E ts \in [1..n -> 1..Len(VagasTokens)] :
          vagas_text = Concatenation([k \in 1..n |-> VagasTokens[ts[k]]])
    /\ vagas_result = <<0, 0>>
    /\ ParseIdle /\ FindIdle /\ EditalIdle /\ MainIdle /\ CallerIdle /\ NetIdle

NextVagas == ParseVagas

SpecVagas == InitVagas /\ [][NextVagas]_vars

(***************************************************************************)
(* A caller that consolidates a list of tables with find_cargos_table and  *)
(* then calls parse_cargos twice on the consolidated table and one city.   *)
(***************************************************************************)
\* df = find_cargos_table(tables) has returned a table: parse_cargos(df, cidade)
CallParse ==
    /\ pc = "find_done"
    /\ consolidated # NoDF
    /\ df' = consolidated
    /\ cidade' = s_cidade
    /\ pc' = "parse_init"
    /\ UNCHANGED <<utilVars, callerVars, scrapeVars, netVars, col_mapping, row_idx, cargos, findVars, editalVars, mainVars>>

\* the first call has returned: keep its value and call parse_cargos(df, cidade) again
CallAgain ==
    /\ pc = "parse_done"
    /\ ~previous.called
    /\ previous' = [called |-> TRUE, cargos |-> cargos]
    /\ pc' = "parse_init"
    /\ UNCHANGED <<utilVars, scrapeVars, netVars, parseVars, findVars, editalVars, mainVars>>

\* lists of one table of at least 2 columns with one cell over CellVocab
InitSingleTables ==
    \E n \in 2..MaxCols, R \in 1..MaxRows : \E c1 \in 1..(R * n), x1 \in CellVocab :
        tables = << [columns |-> PlainHeader(n), rows |-> TableWith(R, n, c1, x1, c1, x1)] >>

InitTwice ==
    /\ pc = "find_init"
    /\ (InitSingleTables \/ InitTableLists)
    /\ t_idx = 0 /\ score = 0 /\ cargo_tables = <<>>
    /\ reference_shape = NoReference /\ consolidated = NoDF
    /\ ParseIdle /\ EditalIdle /\ MainIdle /\ CallerIdle /\ NetIdle /\ UtilIdle

NextTwice ==
    \/ FindInit \/ FindTable \/ FindReturn
    \/ CallParse
    \/ ParseInit \/ ParseRow \/ ParseReturn
    \/ CallAgain

SpecTwice == InitTwice /\ [][NextTwice]_vars

(***************************************************************************)
(* Helpers of the properties.                                              *)
(***************************************************************************)
SetMax(S) == CHOOSE x \in S : \A y \in S : y <= x
SetMin(S) == CHOOSE x \in S : \A y \in S : x <= y

\* the row loop of parse_cargos is about to handle row row_idx
AtRow == pc = "parse_rows" /\ row_idx <= Len(df.rows)

\* trimmed text of the cell of the current row that field f is mapped to
CurText(f) ==
    IF f \in DOMAIN col_mapping THEN Strip(Str(df.rows[row_idx][col_mapping[f] + 1])) ELSE <<>>

\* CurText after placeholder normalization
CurNorm(f) == IF CurText(f) \in {s_nan, s_None, s_null} THEN <<>> ELSE CurText(f)

(***************************************************************************)
(* C1: a row of the table produces a record if and only if, after trimming *)
(* and placeholder normalization, its role is longer than 3 characters and *)
(* its salary is non-empty and none of "nan", "None", "-"; a row produces  *)
(* at most one record and a rejected row produces nothing.                 *)
(***************************************************************************)
C1_RowAccepted ==
    /\ Len(CurNorm("cargo")) >= 4
    /\ CurNorm("salario") \notin {<<>>, s_nan, s_None, s_dash}

C1_InclusionPredicate ==
    [][AtRow => IF C1_RowAccepted
                THEN Len(cargos') = Len(cargos) + 1 /\ SubSeq(cargos', 1, Len(cargos)) = cargos
                ELSE cargos' = cargos]_vars

\* a two-row table of which exactly one row produced a record
C1_Witness == pc = "parse_done" /\ Len(df.rows) = 2 /\ Len(cargos) = 1

(***************************************************************************)
(* C4: with 8 columns or more the mapping is role=0, requirement=2,        *)
(* hours=3, openings=4, salary=7, with 5 to 7 columns it is role=0,        *)
(* requirement=1, hours=2, openings=3, salary=4, whatever the header says, *)
(* and the records hold the cells of those columns.                        *)
(***************************************************************************)
C4_Expected(n) ==
    IF n >= 8
    THEN [cargo |-> 0, requisito |-> 2, carga_horaria |-> 3, vagas |-> 4, salario |-> 7]
    ELSE [cargo |-> 0, requisito |-> 1, carga_horaria |-> 2, vagas |-> 3, salario |-> 4]

C4_FromColumns(rec, n) ==
    \E r \in 1..Len(df.rows) : \A f \in Fields :
        LET t == Strip(Str(df.rows[r][C4_Expected(n)[f] + 1])) IN
        rec[f] = IF t \in {s_nan, s_None, s_null} THEN <<>> ELSE t

C4_PositionalTiers ==
    (pc \in {"parse_rows", "parse_done"} /\ ~Empty(df) /\ NumCols(df) >= 5)
    => /\ col_mapping = C4_Expected(NumCols(df))
       /\ \A k \in 1..Len(cargos) : C4_FromColumns(cargos[k], NumCols(df))

\* an 8-column table whose first header reads as a salary column, parsed to a record
C4_Witness ==
    /\ pc = "parse_done" /\ NumCols(df) = 8 /\ Len(cargos) = 1
    /\ NarrowField(df.columns[1]) = "salario"

(***************************************************************************)
(* C5: in a table of fewer than 5 columns each column is assigned to the   *)
(* first keyword group its lowercased header matches (role, requirement,   *)
(* salary, hours, openings, in this order); a field holds the index of the *)
(* last column assigned to it; a field no column is assigned to is absent  *)
(* from the mapping and empty in every record.                             *)
(***************************************************************************)
C5_Groups ==
    << [f |-> "cargo", kws |-> {s_cargo, s_funcao}],
       [f |-> "requisito", kws |-> {s_escolaridade, s_requisito}],
       [f |-> "salario", kws |-> {s_salario, s_vencimento, s_remuneracao, s_valor_inicial}],
       [f |-> "carga_horaria", kws |-> {s_chs, s_carga}],
       [f |-> "vagas", kws |-> {s_vagas}] >>

C5_Matching(col) ==
    LET text == Lower(Str(col)) IN
    { g \in 1..Len(C5_Groups) : \E kw \in C5_Groups[g].kws : Contains(text, kw) }

C5_FieldOf(col) ==
    LET M == C5_Matching(col) IN IF M = {} THEN "" ELSE C5_Groups[SetMin(M)].f

\* the 0-based columns of the table that the rule assigns to field f
C5_ColumnsOf(f) == { j \in 0..(NumCols(df) - 1) : C5_FieldOf(df.columns[j + 1]) = f }

C5_NarrowTier ==
    (pc \in {"parse_rows", "parse_done"} /\ ~Empty(df) /\ NumCols(df) < 5)
    => LET fieldOf == [j \in 0..(NumCols(df) - 1) |-> C5_FieldOf(df.columns[j + 1])] IN
       \A f \in Fields :
         LET cols == { j \in DOMAIN fieldOf : fieldOf[j] = f } IN
         IF cols = {}
         THEN /\ f \notin DOMAIN col_mapping
              /\ \A k \in 1..Len(cargos) : cargos[k][f] = <<>>
         ELSE /\ f \in DOMAIN col_mapping
              /\ col_mapping[f] = SetMax(cols)

\* a narrow table with two salary columns, a header matching two groups and
\* no openings column, parsed to a record
C5_Witness ==
    /\ pc = "parse_done" /\ NumCols(df) < 5 /\ Len(cargos) = 1
    /\ Cardinality(C5_ColumnsOf("salario")) = 2
    /\ \E j \in 1..NumCols(df) : Cardinality(C5_Matching(df.columns[j])) = 2
    /\ C5_ColumnsOf("vagas") = {}
    /\ cargos[1].vagas = <<>>

(***************************************************************************)
(* C7: a field whose trimmed value is exactly "nan", "None" or "null" is   *)
(* rewritten to the empty string before the inclusion predicate: no record *)
(* holds one of these strings in role, requirement, salary, hours or       *)
(* openings, and a row whose salary is "None" produces no record.          *)
(***************************************************************************)
C7_PlaceholderNormalization ==
    [][AtRow => /\ CurText("salario") = s_None => cargos' = cargos
                /\ \A k \in 1..Len(cargos') : \A f \in Fields :
                      cargos'[k][f] \notin {s_nan, s_None, s_null}
                /\ \A f \in Fields :
                      (CurText(f) \in {s_nan, s_None, s_null} /\ Len(cargos') > Len(cargos))
                      => cargos'[Len(cargos')][f] = <<>>]_vars

\* a record whose requirement cell read "null", and a row dropped for its salary "None"
C7_Witness ==
    /\ pc = "parse_done" /\ Len(df.rows) = 2 /\ Len(cargos) = 1
    /\ "requisito" \in DOMAIN col_mapping /\ "salario" \in DOMAIN col_mapping
    /\ Strip(Str(df.rows[1][col_mapping["requisito"] + 1])) = s_null
    /\ cargos[1].requisito = <<>>
    /\ Strip(Str(df.rows[2][col_mapping["salario"] + 1])) = s_None

(***************************************************************************)
(* C2: the score of a table with a data row is the number of distinct      *)
(* keywords of the 9-keyword vocabulary that occur in the lowercased,      *)
(* space-joined header cells followed by the cells of the first data row;  *)
(* it lies in 0..9, later rows do not count, and the table qualifies if    *)
(* and only if the score is at least 2.                                    *)
(***************************************************************************)
C2_Vocabulary ==
    {s_cargo, s_escolaridade, s_requisito, s_salario, s_remuneracao,
     s_vencimento, s_vagas, s_chs, s_carga_horaria}

C2_Text(d) ==
    Lower(Join([n \in 1..(Len(d.columns) + Len(d.rows[1])) |->
                  IF n <= Len(d.columns) THEN Str(d.columns[n])
                  ELSE Str(d.rows[1][n - Len(d.columns)])]))

C2_Score(d) == LET text == C2_Text(d) IN Cardinality({kw \in C2_Vocabulary : Contains(text, kw)})

\* the loop of find_cargos_table has just scored table t_idx - 1
JustScored == pc = "find_loop" /\ t_idx > 1 /\ ~Empty(tables[t_idx - 1])

C3_Qualifying(n) == { k \in 1..n : ~Empty(tables[k]) /\ C2_Score(tables[k]) >= 2 }

\* the signature, given the set Q of the qualifying tables
C3_SignatureOf(Q) == IF Q = {} THEN NoReference ELSE NumCols(tables[SetMin(Q)])

C3_Signature(n) == C3_SignatureOf(C3_Qualifying(n))

RECURSIVE C3_GroupOf(_, _, _, _)
\* the tables k..n of the input that qualify (Q) and have the signature sig, in order
C3_GroupOf(k, n, Q, sig) ==
    IF k > n THEN <<>>
    ELSE IF k \in Q /\ NumCols(tables[k]) = sig
         THEN <<tables[k]>> \o C3_GroupOf(k + 1, n, Q, sig)
         ELSE C3_GroupOf(k + 1, n, Q, sig)

C3_Group(n) == LET Q == C3_Qualifying(n) IN C3_GroupOf(1, n, Q, C3_SignatureOf(Q))

RECURSIVE C3_SourceRows(_)
\* the rows of the tables of a group in order, each with the labels of its table
C3_SourceRows(ts) ==
    IF ts = <<>> THEN <<>>
    ELSE [r \in 1..Len(Head(ts).rows) |-> [columns |-> Head(ts).columns, row |-> Head(ts).rows[r]]]
         \o C3_SourceRows(Tail(ts))

C6_Grid == edital.doc.pages[1].grids[1]

C6_HeaderScore(header) ==
    LET text == Lower(Join([n \in 1..Len(header) |-> Str(header[n])])) IN
    Cardinality({kw \in C2_Vocabulary : Contains(text, kw)})

C6_Case ==
    /\ edital.doc.download
    /\ Len(edital.doc.pages) = 1
    /\ ~edital.doc.pages[1].raises
    /\ Len(edital.doc.pages[1].grids) = 1
    /\ Len(C6_Grid) >= 1
    /\ Len(C6_Grid[1]) = 8
    /\ C6_HeaderScore(C6_Grid[1]) >= 2

\* trimmed text of the 0-based cell j of a row of the grid
C6_Cell(row, j) ==
    LET t == Strip(Str(row[j + 1])) IN IF t \in {s_nan, s_None, s_null} THEN <<>> ELSE t

C6_Passes(row) ==
    /\ Len(C6_Cell(row, 0)) > 3
    /\ C6_Cell(row, 7) \notin {<<>>, s_nan, s_None, s_dash}

C6_Record(row) ==
    [cargo |-> C6_Cell(row, 0), requisito |-> C6_Cell(row, 2), carga_horaria |-> C6_Cell(row, 3),
     vagas |-> C6_Cell(row, 4), salario |-> C6_Cell(row, 7)]

RECURSIVE C6_Expected(_)
C6_Expected(rows) ==
    IF rows = <<>> THEN <<>>
    ELSE (IF C6_Passes(Head(rows)) THEN <<C6_Record(Head(rows))>> ELSE <<>>)
         \o C6_Expected(Tail(rows))

C6_Fields(recs) ==
    [k \in 1..Len(recs) |->
        [cargo |-> recs[k].cargo, requisito |-> recs[k].requisito,
         carga_horaria |-> recs[k].carga_horaria, vagas |-> recs[k].vagas,
         salario |-> recs[k].salario]]

C6_EndToEnd ==
    (pc = "edital_done" /\ C6_Case) => C6_Fields(result) = C6_Expected(Tail(C6_Grid))

\* the data row of the example has become the only record
C6_Witness ==
    /\ pc = "edital_done" /\ C6_Case
    /\ Tail(C6_Grid) = <<RowEnfermeiro>>
    /\ Len(result) = 1
    /\ result[1].cargo = <<"E","n","f","e","r","m","e","i","r","o"," ","P","S","F">>
    /\ result[1].carga_horaria = <<"4","0","h">>
    /\ result[1].vagas = <<"0","2","+","C","R">>
    /\ result[1].salario = <<"1",".","5","1","8",",","0","0">>

(***************************************************************************)
(* C8 as stated: a qualifying table whose column count differs from the    *)
(* first qualifying table's starts a group of its own, and the rows of it  *)
(* that are valid under the schema of that table are among the records of  *)
(* the document.                                                           *)
(***************************************************************************)
\* the scored tables of the document whose column count is not the signature
C8_Differing ==
    { k \in C3_Qualifying(Len(tables)) : NumCols(tables[k]) # C3_Signature(Len(tables)) }

C8_OwnRecord(k, r) == CargoInfo(tables[k].rows[r], InferMapping(tables[k]), cidade)

RECURSIVE C8_RowCount(_)
C8_RowCount(K) ==
    IF K = {} THEN 0
    ELSE LET k == CHOOSE x \in K : TRUE IN Len(tables[k].rows) + C8_RowCount(K \ {k})

C8_FromRow(rec, row) ==
    \A f \in Fields :
        LET t == Strip(Str(row[C4_Expected(NumCols(consolidated))[f] + 1])) IN
        rec[f] = IF t \in {s_nan, s_None, s_null} THEN <<>> ELSE t

RECURSIVE C9_Group(_, _)
C9_Group(ts, ref) ==
    IF ts = <<>> THEN <<>>
    ELSE LET d == Head(ts)
             q == ~Empty(d) /\ C2_Score(d) >= 2
             ref2 == IF q /\ ref = NoReference THEN NumCols(d) ELSE ref
         IN (IF q /\ NumCols(d) = ref2 THEN <<d>> ELSE <<>>) \o C9_Group(Tail(ts), ref2)

C9_Fails(info) ==
    LET group == C9_Group(extract_tables(info.doc), NoReference) IN
    \/ ~info.doc.download
    \/ extract_tables(info.doc) = <<>>
    \/ group = <<>>
    \/ Len(group) > 1 /\ ConcatRaises(group)

RECURSIVE C9_Records(_, _, _)
C9_Records(rows, m, cid) ==
    IF rows = <<>> THEN <<>>
    ELSE (IF Included(CargoInfo(Head(rows), m, cid))
          THEN <<CargoInfo(Head(rows), m, cid)>> ELSE <<>>)
         \o C9_Records(Tail(rows), m, cid)

\* the records that the document of one competition yields on its own
C9_Stored(info) ==
    IF ~info.edital_principal \/ C9_Fails(info) THEN <<>>
    ELSE LET group == C9_Group(extract_tables(info.doc), NoReference)
             t == IF Len(group) = 1 THEN group[1] ELSE Concat(group)
             recs == C9_Records(t.rows, InferMapping(t), extract_cidade_estado(info.nome).cidade)
         IN [k \in 1..Len(recs) |-> Cargo(recs[k], info)]

C9_FailureIsolation ==
    /\ pc \in {"main_loop", "main_done"}
       => /\ Len(database) = c_idx - 1
          /\ \A k \in 1..Len(database) :
                /\ database[k].id = concursos_data[k].id
                /\ database[k].cargos = C9_Stored(concursos_data[k])
    /\ pc = "main_done" => Len(database) = Len(concursos_data)

\* the first document raised in process_edital and stored nothing, the second
\* stored its records
C9_Witness ==
    /\ pc = "main_done" /\ Len(concursos_data) = 2
    /\ concursos_data[1].edital_principal /\ concursos_data[1].doc = DocConcatRaises
    /\ database[1].cargos = <<>>
    /\ Len(database[2].cargos) = 2

(***************************************************************************)
(* C11: no hidden mutable state.  The second of two calls of parse_cargos  *)
(* on the same table and city returns the record sequence that the first   *)
(* returned; no step of find_cargos_table or parse_cargos changes a header *)
(* or a cell of the tables given to find_cargos_table, of the tables it    *)
(* keeps, of the consolidated table or of the table given to parse_cargos, *)
(* also when the group has one table and the consolidated table is that    *)
(* table.                                                                  *)
(***************************************************************************)
C11_SameRecords == (pc = "parse_done" /\ previous.called) => cargos = previous.cargos

\* the table that parse_cargos holds is the one find_cargos_table was given
C11_Shared == Len(cargo_tables) = 1 /\ \E k \in 1..Len(tables) : df = tables[k]

C11_Untouched ==
    /\ tables' = tables
    /\ \A n \in 1..Len(cargo_tables') : \E k \in 1..Len(tables) : cargo_tables'[n] = tables[k]
    /\ pc \in {"parse_init", "parse_rows", "parse_done"}
       => df' = df /\ cidade' = cidade /\ consolidated' = consolidated
                  /\ cargo_tables' = cargo_tables
    /\ (pc' = "find_done" /\ Len(cargo_tables') = 1) => consolidated' = cargo_tables'[1]

C11_NoHiddenState == []C11_SameRecords /\ [][C11_Untouched]_vars

\* the second call on a shared table of two rows, one of them rejected, has returned
C11_Witness ==
    /\ pc = "parse_done" /\ previous.called
    /\ C11_Shared
    /\ Len(df.rows) = 2
    /\ Len(cargos) = 1
    /\ previous.cargos = cargos

(***************************************************************************)
(* C12: context stamping.  Every record that process_edital returns        *)
(* carries the city it was called with, exactly as supplied, and every     *)
(* record stored in a Concurso carries that city and the id and the name   *)
(* of the competition it was added to.                                     *)
(***************************************************************************)
\* the city that main supplies for the competition at position k
C12_Supplied(k) == extract_cidade_estado(concursos_data[k].nome).cidade

C12_ContextStamping ==
    /\ pc = "edital_done" => \A q \in 1..Len(result) : result[q].cidade = edital.cidade
    /\ \A k \in 1..Len(database) : \A q \in 1..Len(database[k].cargos) :
          /\ database[k].cargos[q].cidade = C12_Supplied(k)
          /\ database[k].cargos[q].concurso_id = concursos_data[k].id
          /\ database[k].cargos[q].concurso_nome = concursos_data[k].nome

(***************************************************************************)
(* C13: decode failure.  A document on some page of which the extraction   *)
(* of the tables fails with an error, the first page or a later one,       *)
(* contributes no record: process_edital returns the empty list.           *)
(***************************************************************************)
C13_Fails == \E p \in 1..Len(edital.doc.pages) : edital.doc.pages[p].raises

C13_DecodeFailure == (pc = "edital_done" /\ edital.doc.download /\ C13_Fails) => result = <<>>

(***************************************************************************)
(* C14: one positional schema per group.  The consolidated table has the   *)
(* column count of the tables of the group, so the mapping inferred from   *)
(* it is the mapping of the group's first table; and every row of every    *)
(* table of the group whose cells at the positions of that mapping pass    *)
(* the inclusion predicate yields a record with exactly those cell values, *)
(* whatever the header cells of the table it stands in.                    *)
(***************************************************************************)
\* the record of row r of table n of the group under the mapping of the first table
C14_OwnRecord(n, r) == CargoInfo(cargo_tables[n].rows[r], InferMapping(cargo_tables[1]), cidade)

C14_OneSchema ==
    (pc = "edital_done" /\ consolidated # NoDF)
    => /\ NumCols(consolidated) = NumCols(cargo_tables[1])
       /\ col_mapping = InferMapping(cargo_tables[1])
       /\ \A n \in 1..Len(cargo_tables) : \A r \in 1..Len(cargo_tables[n].rows) :
             Included(C14_OwnRecord(n, r))
             => \E q \in 1..Len(result) : result[q] = C14_OwnRecord(n, r)

(***************************************************************************)
(* C15: end to end, the tier is selected by the column count of the raw    *)
(* grid.  For a document of one grid whose table qualifies, a grid of 5, 6 *)
(* or 7 cells per row is extracted with the medium mapping, a grid of      *)
(* fewer than 5 cells per row with the mapping that narrow header-keyword  *)
(* matching gives on the header of the grid, and every record holds the    *)
(* cells of a data row of the grid at the positions of that mapping.       *)
(***************************************************************************)
C15_Grid == edital.doc.pages[1].grids[1]

C15_Case ==
    /\ edital.doc.download
    /\ Len(edital.doc.pages) = 1 /\ ~edital.doc.pages[1].raises
    /\ Len(edital.doc.pages[1].grids) = 1
    /\ Len(C15_Grid) >= 2
    /\ Len(C15_Grid[1]) < 8
    /\ consolidated # NoDF

C15_Mapping ==
    IF Len(C15_Grid[1]) >= 5 THEN MediumMapping ELSE NarrowMapping(C15_Grid[1], 0, EmptyDict)

C15_RawTierSelection ==
    (pc = "edital_done" /\ C15_Case)
    => /\ col_mapping = C15_Mapping
       /\ \A q \in 1..Len(result) : \E r \in 2..Len(C15_Grid) :
             result[q] = CargoInfo(C15_Grid[r], C15_Mapping, edital.cidade)

(***************************************************************************)
(* C16: header-only tables are classified on their header.  A table with a *)
(* header row and no data row gets the score of its header cells alone,    *)
(* and it qualifies, entering the group and setting the signature when it  *)
(* is the first table, if and only if that score is at least 2.            *)
(***************************************************************************)
C16_HeaderOnly(d) == Len(d.columns) > 0 /\ Len(d.rows) = 0

C16_HeaderScore(d) ==
    LET text == Lower(Join([n \in 1..Len(d.columns) |-> Str(d.columns[n])])) IN
    Cardinality({kw \in C2_Vocabulary : Contains(text, kw)})

C16_HeaderOnlyTables ==
    (pc = "find_loop" /\ t_idx = 2 /\ C16_HeaderOnly(tables[1]))
    => LET d == tables[1] IN
       /\ score = C16_HeaderScore(d)
       /\ (C16_HeaderScore(d) >= 2) <=> (cargo_tables = <<d>> /\ reference_shape = NumCols(d))

(***************************************************************************)
(* C17: request pacing across a whole run.  Requests are issued one at a   *)
(* time, and when a request other than the first of the run is issued, for *)
(* the listing page, a competition page or a PDF, at least REQUEST_DELAY   *)
(* has elapsed since the request before it.                                *)
(***************************************************************************)
C17_Issued == n_requests' = n_requests + 1

C17_Paced == (C17_Issued /\ n_requests >= 1) => elapsed >= REQUEST_DELAY

C17_RequestPacing == [][n_requests' \in {n_requests, n_requests + 1} /\ C17_Paced]_vars

(***************************************************************************)
(* Forms of the texts given to parse_vagas.                                *)
(***************************************************************************)
C18_Text == vagas_text

C18_Digits(a, b) == a <= b /\ \A n \in a..b : C18_Text[n] \in {"0","1","2","3","4","5","6","7","8","9"}

C18_Spaces(a, b) == \A n \in a..b : C18_Text[n] \in {" ", "\n", "\t"}

\* positions a..b of the text read "<digits> + CR": the digits end at e, the
\* letters start at b - 1, spaces may stand around the plus sign
C18_CRForm(a, e, b) ==
    /\ C18_Digits(a, e)
    /\ b - 1 > e + 1
    /\ C18_Text[b - 1] \in {"C", "c"} /\ C18_Text[b] \in {"R", "r"}
    /\ \E plus \in (e + 1)..(b - 2) :
          /\ C18_Text[plus] = "+"
          /\ C18_Spaces(e + 1, plus - 1)
          /\ C18_Spaces(plus + 1, b - 2)

RECURSIVE C18_Number(_, _, _)
\* the number that the digits at positions a..b spell, acc being the number read so far
C18_Number(a, b, acc) ==
    IF a > b THEN acc
    ELSE C18_Number(a + 1, b, 10 * acc +
            (CASE C18_Text[a] = "0" -> 0 [] C18_Text[a] = "1" -> 1 [] C18_Text[a] = "2" -> 2
               [] C18_Text[a] = "3" -> 3 [] C18_Text[a] = "4" -> 4 [] C18_Text[a] = "5" -> 5
               [] C18_Text[a] = "6" -> 6 [] C18_Text[a] = "7" -> 7 [] C18_Text[a] = "8" -> 8
               [] C18_Text[a] = "9" -> 9))

(***************************************************************************)
(* C18 as stated: a text that as a whole reads "<n>+CR" gives (n, 1), a    *)
(* text that as a whole is an integer gives (n, 0), and every other text   *)
(* gives (0, 0).                                                           *)
(***************************************************************************)
C18_WholeText ==
    pc = "vagas_done"
    => LET L == Len(C18_Text) IN
       IF \E e \in 1..L : C18_CRForm(1, e, L)
       THEN vagas_result = <<C18_Number(1, CHOOSE e \in 1..L : C18_CRForm(1, e, L), 0), 1>>
       ELSE IF C18_Digits(1, L)
       THEN vagas_result = <<C18_Number(1, L, 0), 0>>
       ELSE vagas_result = <<0, 0>>

(***************************************************************************)
(* C18 amended: the forms are searched inside the text.  If some part of   *)
(* the text reads "<n>+CR", the leftmost such part gives (n, 1), n being   *)
(* the whole run of digits it starts in; otherwise, if the text holds a    *)
(* digit, its first run of digits n gives (n, 0); only a text without any  *)
(* digit gives (0, 0).                                                     *)
(***************************************************************************)
\* the starts of the runs of digits, and the end of the run that starts at a
C18_RunStarts ==
    { a \in 1..Len(C18_Text) : C18_Digits(a, a) /\ (a = 1 \/ ~C18_Digits(a - 1, a - 1)) }

C18_RunEnd(a) == SetMax({ e \in a..Len(C18_Text) : C18_Digits(a, e) })

C18_WithCR == { a \in C18_RunStarts : \E b \in a..Len(C18_Text) : C18_CRForm(a, C18_RunEnd(a), b) }

C18_Searched ==
    pc = "vagas_done"
    => IF C18_WithCR # {}
       THEN vagas_result = <<C18_Number(SetMin(C18_WithCR), C18_RunEnd(SetMin(C18_WithCR)), 0), 1>>
       ELSE IF C18_RunStarts # {}
       THEN vagas_result = <<C18_Number(SetMin(C18_RunStarts), C18_RunEnd(SetMin(C18_RunStarts)), 0), 0>>
       ELSE vagas_result = <<0, 0>>

\* "12 + cr" embedded in other text
C18_Witness ==
    /\ pc = "vagas_done"
    /\ vagas_text = <<"x","1","2"," ","+"," ","c","r">>
    /\ vagas_result = <<12, 1>>

(***************************************************************************)
(* C19: no field of a record returned by process_edital is read from the   *)
(* column _pagina.  Whatever the width of the raw grids of the document,   *)
(* each of role, requirement, salary, hours and openings of every record   *)
(* is empty or the trimmed text of a cell of a data row of a raw grid.     *)
(***************************************************************************)
\* the trimmed texts of the cells of the data rows of the raw grids of the document
C19_CellTexts ==
    { Strip(Str(edital.doc.pages[p[1]].grids[p[2]][p[3]][p[4]])) :
        p \in { x \in (1..Len(edital.doc.pages)) \X (1..2) \X (2..(MaxRows + 2)) \X (1..(MaxCols + 1)) :
                  /\ x[2] <= Len(edital.doc.pages[x[1]].grids)
                  /\ x[3] <= Len(edital.doc.pages[x[1]].grids[x[2]])
                  /\ x[4] <= Len(edital.doc.pages[x[1]].grids[x[2]][x[3]]) } }

C19_NoPageNumber ==
    pc = "edital_done"
    => \A q \in 1..Len(result) : \A f \in Fields :
          result[q][f] = <<>> \/ result[q][f] \in C19_CellTexts

(***************************************************************************)
(* C20: the inclusion predicate survives the cleaning of main.  Every      *)
(* Cargo stored in the database, after clean_text on its role and          *)
(* requirement and clean_salary on its salary, has a role longer than 3    *)
(* characters and a non-empty salary.                                      *)
(***************************************************************************)
C20_SurvivesCleaning ==
    \A k \in 1..Len(database) : \A q \in 1..Len(database[k].cargos) :
        /\ Len(database[k].cargos[q].cargo) > 3
        /\ database[k].cargos[q].salario # <<>>

(***************************************************************************)
(* C21: for every non-empty table given to parse_cargos, in each of the    *)
(* three tiers, every column index of the inferred mapping is smaller than *)
(* the column count of the table and no two fields are mapped to the same  *)
(* column; so reading a row never fails on an index out of range and no    *)
(* row is skipped on that path.                                            *)
(***************************************************************************)
C21_Inferred == pc \in {"parse_rows", "parse_done"} /\ ~Empty(df)

C21_InRange ==
    C21_Inferred
    => /\ DOMAIN col_mapping \subseteq Fields
       /\ \A f \in DOMAIN col_mapping : col_mapping[f] \in 0..(NumCols(df) - 1)
       /\ \A f \in DOMAIN col_mapping : \A g \in DOMAIN col_mapping :
             col_mapping[f] = col_mapping[g] => f = g
       /\ \A r \in 1..Len(df.rows) :
             /\ Len(df.rows[r]) = NumCols(df)
             /\ ~RowRaises(df.rows[r], col_mapping)

\* a table of 8 columns, the narrowest of the wide tier, whose rows were all read up
\* to the last column
C21_Witness ==
    /\ pc = "parse_done" /\ ~Empty(df)
    /\ NumCols(df) = 8
    /\ "salario" \in DOMAIN col_mapping /\ col_mapping["salario"] = 7
    /\ Len(df.rows) = 2 /\ Len(cargos) = 2

(***************************************************************************)
(* C22.  scrape_all returns exactly one result per open competition, in    *)
(* the order of the listing, also for a competition whose page cannot be   *)
(* fetched or has no PDF link (its editais are empty and its               *)
(* edital_principal is None); edital_principal is the first edital of type *)
(* abertura_inscricoes if there is one, otherwise the first edital,        *)
(* otherwise None; main attempts a download only for an entry whose        *)
(* edital_principal is not None, and downloads that edital.                *)
(***************************************************************************)
C22_Abertura(editais) == { n \in 1..Len(editais) : editais[n].tipo = "abertura_inscricoes" }

C22_Principal(e) ==
    IF C22_Abertura(e.editais) # {}
    THEN \E n \in C22_Abertura(e.editais) :
            /\ \A m \in 1..(n - 1) : m \notin C22_Abertura(e.editais)
            /\ e.principal = e.editais[n]
    ELSE IF Len(e.editais) > 0 THEN e.principal = e.editais[1]
    ELSE e.principal = NoPrincipal

C22_OneResultEach ==
    /\ Len(concursos_data) <= Len(concursos)
    /\ pc \notin {"scrape_init", "scrape_sleep", "scrape_page"}
          => Len(concursos_data) = Len(concursos)
    /\ \A k \in 1..Len(concursos_data) :
          LET e == concursos_data[k]
              page == PageOf(site, e.id)
          IN /\ e.id = concursos[k].id /\ e.nome = concursos[k].nome
             /\ (~page.ok \/ page.links = <<>>) => (e.editais = <<>> /\ e.principal = NoPrincipal)
             /\ page.ok => /\ Len(e.editais) = Len(page.links)
                           /\ \A n \in 1..Len(page.links) :
                                 /\ e.editais[n].titulo = page.links[n].titulo
                                 /\ e.editais[n].url = page.links[n].url
             /\ C22_Principal(e)
    /\ pc = "edital_init"
          => /\ concursos_data[c_idx].principal # NoPrincipal
             /\ edital.doc = DocAt(concursos_data[c_idx].principal.url)

\* C22 witness: the run is over; the page of the first competition failed and
\* its entry has no edital; on the page of the second the announcement of the
\* opening of registration came after another edital and was chosen
C22_Witness ==
    /\ pc = "main_done"
    /\ Len(concursos) = 2 /\ Len(concursos_data) = 2 /\ Len(database) = 2
    /\ ~PageOf(site, concursos[1].id).ok
    /\ concursos_data[1].principal = NoPrincipal
    /\ Len(concursos_data[2].editais) = 2
    /\ concursos_data[2].editais[1].tipo = "edital"
    /\ concursos_data[2].editais[2].tipo = "abertura_inscricoes"
    /\ concursos_data[2].principal = concursos_data[2].editais[2]
    /\ n_requests = 4

(***************************************************************************)
(* C23.  The entries that get_concursos_abertos returns have pairwise      *)
(* distinct competition ids, and none has the empty string or a generic    *)
(* button label as its name; the entry of an id comes from the first link  *)
(* to that id whose label (its text, or its title when it has no text) is  *)
(* not generic, so every id with such a link has an entry, whatever        *)
(* generic links to it came before.                                        *)
(***************************************************************************)
C23_Links == { n \in 1..Len(site.links) : Contains(site.links[n].href, s_informacoes) }

C23_Id(n) ==
    LastSegment(RStripSlash(IF StartsWith(site.links[n].href, s_http) THEN site.links[n].href
                            ELSE BASE_URL \o site.links[n].href))

C23_Named(n) == Lower(LinkNome(site.links[n])) \notin GenericLabels

C23_FirstNamedLink ==
    (pc # "scrape_init" /\ site.listing_ok)
    => /\ \A a \in 1..Len(concursos) : \A b \in 1..Len(concursos) :
             concursos[a].id = concursos[b].id => a = b
       /\ \A a \in 1..Len(concursos) :
             /\ concursos[a].nome # <<>>
             /\ Lower(concursos[a].nome) \notin GenericLabels
             /\ \E n \in C23_Links :
                   /\ C23_Id(n) = concursos[a].id /\ C23_Named(n)
                   /\ concursos[a].nome = LinkNome(site.links[n])
                   /\ \A m \in C23_Links : (m < n /\ C23_Id(m) = C23_Id(n)) => ~C23_Named(m)
       /\ \A n \in C23_Links :
             C23_Named(n) => \E a \in 1..Len(concursos) : concursos[a].id = C23_Id(n)

\* C23 witness: a button with a generic label links to competition 25 before
\* the link that names it, and the competition is returned with that name
C23_Witness ==
    /\ pc = "scrape_sleep" /\ site.listing_ok
    /\ Len(site.links) = 2
    /\ C23_Links = {1, 2}
    /\ C23_Id(1) = C23_Id(2)
    /\ ~C23_Named(1) /\ site.links[1].text # <<>>
    /\ C23_Named(2)
    /\ Len(concursos) = 1
    /\ concursos[1].nome = LinkNome(site.links[2])

(***************************************************************************)
(* C24.  Every Concurso that main stores has the city and the state of its *)
(* title: for a title "MUNICÍPIO DE <city>/<UF>" and for a title           *)
(* "<city>/<UF>" the city is <city>, without the prefix, and the state is  *)
(* <UF>; for a title with no city/UF pattern both are empty.               *)
(***************************************************************************)
C24_Prefix == <<"M","U","N","I","C","Í","P","I","O"," ","D","E"," ">>

C24_Cities == { <<"N","a","t","a","l">>, <<"S","o","s","s","ê","g","o">> }

C24_UFs == { <<"R","N">>, <<"P","B">> }

\* no "/" of the title stands between a character of a city name and two capitals
C24_NoPattern(nome) ==
    \A i \in 2..(Len(nome) - 2) :
        ~(nome[i] = "/" /\ nome[i - 1] \in CityChars
          /\ nome[i + 1] \in UpperAZ /\ nome[i + 2] \in UpperAZ)

C24_CityWithoutPrefix ==
    \A k \in 1..Len(database) :
        LET c == database[k] IN
        /\ \A city \in C24_Cities : \A uf \in C24_UFs :
              (c.nome = C24_Prefix \o city \o <<"/">> \o uf \/ c.nome = city \o <<"/">> \o uf)
              => (c.cidade = city /\ c.estado = uf)
        /\ C24_NoPattern(c.nome) => (c.cidade = <<>> /\ c.estado = <<>>)

====
